---- MODULE Spec2Model ----
(***************************************************************************)
(* Model of the bestmua-data crawl pipeline: the persistence layer         *)
(* (database.py, models.py), the slug normaliser (normalizer.py), the SQL  *)
(* exporter (exporter.py) and the crawl orchestrator (crawler.py).         *)
(*                                                                         *)
(* Text is modelled as sequences of one-character strings, so that the     *)
(* normaliser is computed as the code computes it.  Tables are sequences   *)
(* of rows; a row's id is its position (rows of categories, brands and     *)
(* products are never deleted).  A NULL column is the value Null.          *)
(***************************************************************************)
EXTENDS Integers, Sequences, FiniteSets, TLC

VARIABLES
    categories,   \* table categories   (models.py Category)
    brands,       \* table brands       (models.py Brand)
    products,     \* table products     (models.py Product)
    sessions,     \* table crawl_sessions: set of rows (rows can be deleted)
    now,          \* the wall clock read by datetime.utcnow()
    last,         \* outcome of the operation executed by the latest step
    files,        \* export directory: category slug -> written SQL file
    crawl         \* state of the orchestrator (BestmuaCrawler) and of its run

vars == <<categories, brands, products, sessions, now, last, files, crawl>>

Null == "NULL"

----------------------------------------------------------------------------
(* Bounds of the model *)

MaxTime == 2          \* the clock takes the values 0..MaxTime
MaxBulk == 2          \* longest input list of bulk_upsert_products
MaxSessions == 2      \* runs of the crawler, each one starting a session
MaxBatch == 2         \* longest list given to _process_products_batch
MaxPages == 3
MaxTasks == 2         \* category tasks submitted to the thread pool
MaxItems == 2         \* records of the batch of one category task
MaxSlugLen == 5       \* longest text given to normalize_slug         \* pages of a listing, and the largest page cap

----------------------------------------------------------------------------
(* Text: characters and the slug normaliser (normalizer.py)                *)
(* "A" is an upper-case letter, "a'" stands for an accented letter of the  *)
(* Vietnamese table (it maps to "a"), "!" for punctuation.                 *)

RECURSIVE StripLeft(_, _)
StripLeft(s, cs) ==
    IF s # <<>> /\ Head(s) \in cs THEN StripLeft(Tail(s), cs) ELSE s

RECURSIVE StripRight(_, _)
StripRight(s, cs) ==
    IF s # <<>> /\ s[Len(s)] \in cs
    THEN StripRight(SubSeq(s, 1, Len(s) - 1), cs)
    ELSE s

\* str.strip(chars)
Strip(s, cs) == StripRight(StripLeft(s, cs), cs)

WhiteSpace == {" "}

\* str.lower(), one character
LowerChar(c) ==
    CASE c = "A"  -> "a"
      [] c = "B"  -> "b"
      [] c = "A'" -> "a'"
      [] OTHER    -> c

\* one entry lookup in vietnamese_chars_map
VietnameseChar(c) ==
    CASE c = "a'" -> "a"
      [] c = "A'" -> "A"
      [] OTHER    -> c

\* the characters matched by \w: letters, digits and the underscore
WordChars == {"a", "b", "c", "d", "e", "k", "n", "o", "p", "q", "u", "w",
              "x", "z", "A", "B", "a'", "A'", "_", "0", "1"}

MapSeq(s, Op(_)) == [i \in 1..Len(s) |-> Op(s[i])]

\* re.sub(r'[-\s]+', '-', s)
RECURSIVE CollapseHyphens(_)
CollapseHyphens(s) ==
    IF s = <<>> THEN <<>>
    ELSE IF Head(s) \in WhiteSpace \cup {"-"}
         THEN <<"-">> \o CollapseHyphens(StripLeft(s, WhiteSpace \cup {"-"}))
         ELSE <<Head(s)>> \o CollapseHyphens(Tail(s))

Unknown == <<"u", "n", "k", "n", "o", "w", "n">>

IsSlugChar(c) == c \in WordChars \cup WhiteSpace \cup {"-"}

\* variant: runs of hyphens and blanks are collapsed before the other
\* characters are removed
normalize_slug_CollapseFirst(slug) ==
    IF slug = <<>> THEN <<>>
    ELSE LET lowered == MapSeq(Strip(slug, WhiteSpace), LowerChar)
             trimmed == Strip(lowered, {"/", " "})
             ascii   == MapSeq(trimmed, VietnameseChar)
             hyphens == CollapseHyphens(ascii)
             kept    == SelectSeq(hyphens, IsSlugChar)
             result  == Strip(kept, {"-"})
         IN  IF result = <<>> THEN Unknown ELSE result

normalize_slug(slug) ==
    IF slug = <<>> THEN <<>>
    ELSE LET lowered == MapSeq(Strip(slug, WhiteSpace), LowerChar)
             trimmed == Strip(lowered, {"/", " "})
             ascii   == MapSeq(trimmed, VietnameseChar)
             kept    == SelectSeq(ascii, IsSlugChar)
             hyphens == CollapseHyphens(kept)
             result  == Strip(hyphens, {"-"})
         IN  IF result = <<>> THEN Unknown ELSE result

----------------------------------------------------------------------------
(* Persistence layer (database.py).  A database value db is a record of    *)
(* the three entity tables; every operation is a function from a database *)
(* and its arguments to its outcome(s).  An outcome records the database   *)
(* after the call (what has been committed), whether the call raised, and  *)
(* what it returned.                                                       *)

NullId == 0           \* a NULL foreign key (row ids start at 1)
NoValue == {}         \* a NULL number; the number v is stored as {v}

Db(cs, bs, ps) == [categories |-> cs, brands |-> bs, products |-> ps]

Outcome(db, raised, created, id) ==
    [db |-> db, raised |-> raised, created |-> created, id |-> id]

\* session.query(T).filter(T.col == v).first(), for a unique column:
\* the id of the row, or NullId
FindBy(table, col, v) ==
    IF \E i \in 1..Len(table) : table[i][col] = v
    THEN CHOOSE i \in 1..Len(table) : table[i][col] = v
    ELSE NullId

\* a UNIQUE constraint on column col is violated by table
ViolatesUnique(table, col) ==
    \E i, j \in 1..Len(table) : i # j /\ table[i][col] = table[j][col]

\* "if key != 'slug' and value": a non-empty payload value replaces the
\* stored one
Overwrite(stored, value) == IF value # <<>> THEN value ELSE stored

\* variant: an update resolves parent_slug as a create does
upsert_category_Reparent(db, category_data, t) ==
    LET table == db.categories
        existing_category == FindBy(table, "slug", category_data.slug)
    IN  IF existing_category # NullId
        THEN LET old == table[existing_category]
                 row == [old EXCEPT
                           !.name = Overwrite(@, category_data.name),
                           !.url = Overwrite(@, category_data.url),
                           !.description = Overwrite(@, category_data.description),
                           !.parent_id =
                               IF category_data.parent_slug # <<>>
                               THEN FindBy(table, "slug", category_data.parent_slug)
                               ELSE @,
                           !.updated_at = t]
                 updated == [table EXCEPT ![existing_category] = row]
             IN  IF ViolatesUnique(updated, "name")
                 THEN Outcome(db, TRUE, FALSE, NullId)      \* IntegrityError, rollback
                 ELSE Outcome([db EXCEPT !.categories = updated],
                              FALSE, FALSE, existing_category)
        ELSE LET parent == IF category_data.parent_slug # <<>>
                           THEN FindBy(table, "slug", category_data.parent_slug)
                           ELSE NullId
                 category == [name |-> category_data.name,
                              slug |-> category_data.slug,
                              url |-> category_data.url,
                              description |-> category_data.description,
                              parent_id |-> parent,
                              updated_at |-> t]
                 inserted == Append(table, category)
             IN  IF ViolatesUnique(inserted, "name")
                 THEN Outcome(db, TRUE, FALSE, NullId)      \* IntegrityError, rollback
                 ELSE Outcome([db EXCEPT !.categories = inserted],
                              FALSE, TRUE, Len(inserted))

upsert_category(db, category_data, t) ==
    LET table == db.categories
        existing_category == FindBy(table, "slug", category_data.slug)
    IN  IF existing_category # NullId
        THEN LET old == table[existing_category]
                 \* setattr of 'parent_slug' sets no column of the row
                 row == [old EXCEPT
                           !.name = Overwrite(@, category_data.name),
                           !.url = Overwrite(@, category_data.url),
                           !.description = Overwrite(@, category_data.description),
                           !.updated_at = t]
                 updated == [table EXCEPT ![existing_category] = row]
             IN  IF ViolatesUnique(updated, "name")
                 THEN Outcome(db, TRUE, FALSE, NullId)      \* IntegrityError, rollback
                 ELSE Outcome([db EXCEPT !.categories = updated],
                              FALSE, FALSE, existing_category)
        ELSE LET parent == IF category_data.parent_slug # <<>>
                           THEN FindBy(table, "slug", category_data.parent_slug)
                           ELSE NullId
                 category == [name |-> category_data.name,
                              slug |-> category_data.slug,
                              url |-> category_data.url,
                              description |-> category_data.description,
                              parent_id |-> parent,
                              updated_at |-> t]
                 inserted == Append(table, category)
             IN  IF ViolatesUnique(inserted, "name")
                 THEN Outcome(db, TRUE, FALSE, NullId)      \* IntegrityError, rollback
                 ELSE Outcome([db EXCEPT !.categories = inserted],
                              FALSE, TRUE, Len(inserted))

upsert_brand(db, brand_data, t) ==
    LET table == db.brands
        existing_brand == FindBy(table, "slug", brand_data.slug)
    IN  IF existing_brand # NullId
        THEN LET old == table[existing_brand]
                 row == [old EXCEPT
                           !.name = Overwrite(@, brand_data.name),
                           !.url = Overwrite(@, brand_data.url),
                           !.description = Overwrite(@, brand_data.description),
                           !.updated_at = t]
                 updated == [table EXCEPT ![existing_brand] = row]
             IN  IF ViolatesUnique(updated, "name")
                 THEN Outcome(db, TRUE, FALSE, NullId)
                 ELSE Outcome([db EXCEPT !.brands = updated],
                              FALSE, FALSE, existing_brand)
        ELSE LET brand == [name |-> brand_data.name,
                           slug |-> brand_data.slug,
                           url |-> brand_data.url,
                           description |-> brand_data.description,
                           updated_at |-> t]
                 inserted == Append(table, brand)
             IN  IF ViolatesUnique(inserted, "name")
                 THEN Outcome(db, TRUE, FALSE, NullId)
                 ELSE Outcome([db EXCEPT !.brands = inserted],
                              FALSE, TRUE, Len(inserted))

\* the payload the get-or-create helpers synthesize from a name
StubData(name) ==
    [name |-> name, slug |-> normalize_slug(name), url |-> <<>>,
     description |-> <<>>, parent_slug |-> <<>>]

\* returns the database after the call and the id of the entity (NullId for None)
\* variant: no lookup by name before the upsert of the synthesized record
get_or_create_category_NoLookup(db, category_name, t) ==
    IF category_name = <<>> THEN [db |-> db, id |-> NullId]
    ELSE LET o == upsert_category(db, StubData(category_name), t)
         IN  IF o.raised THEN [db |-> db, id |-> NullId]
             ELSE [db |-> o.db, id |-> o.id]

get_or_create_category_by_name(db, category_name, t) ==
    IF category_name = <<>> THEN [db |-> db, id |-> NullId]
    ELSE LET category == FindBy(db.categories, "name", category_name)
         IN  IF category # NullId THEN [db |-> db, id |-> category]
             ELSE LET o == upsert_category(db, StubData(category_name), t)
                  IN  IF o.raised THEN [db |-> db, id |-> NullId]
                      ELSE [db |-> o.db, id |-> o.id]

get_or_create_brand_by_name(db, brand_name, t) ==
    IF brand_name = <<>> THEN [db |-> db, id |-> NullId]
    ELSE LET brand == FindBy(db.brands, "name", brand_name)
         IN  IF brand # NullId THEN [db |-> db, id |-> brand]
             ELSE LET o == upsert_brand(db, StubData(brand_name), t)
                  IN  IF o.raised THEN [db |-> db, id |-> NullId]
                      ELSE [db |-> o.db, id |-> o.id]

\* the ids of the rows "slug == payload.slug OR url == payload.url" selects
\* variant: an existing product is looked up by its slug alone
MatchingProducts_SlugOnly(table, product_data) ==
    {i \in 1..Len(table) : table[i].slug = product_data.slug}

MatchingProducts(table, product_data) ==
    {i \in 1..Len(table) : \/ table[i].slug = product_data.slug
                           \/ table[i].url = product_data.url}

\* product_data.get(key, default)
Field(product_data, key, default) ==
    IF key \in DOMAIN product_data THEN product_data[key] ELSE default

\* the branch "if existing_product" of upsert_product, for the row
\* .first() returned
UpdateProduct(db, existing_product, product_data, t) ==
    LET old == db.products[existing_product]
        \* every key but slug whose value is not None is set on the row
        row == [old EXCEPT
                  !.name = product_data.name,
                  !.url = product_data.url,
                  !.description = product_data.description,
                  !.price = IF product_data.price # NoValue
                            THEN product_data.price ELSE @,
                  !.discount_percentage =
                      IF Field(product_data, "discount_percentage", NoValue) # NoValue
                      THEN product_data.discount_percentage ELSE @,
                  !.rating = IF Field(product_data, "rating", NoValue) # NoValue
                             THEN product_data.rating ELSE @,
                  !.review_count = Field(product_data, "review_count", @)]
        dirty == [db.products EXCEPT ![existing_product] = row]
    IN  IF ViolatesUnique(dirty, "url")
        \* the first flush of the dirty row raises IntegrityError; the
        \* helpers swallow it, the final commit raises: rollback, raise
        THEN Outcome(db, TRUE, FALSE, NullId)
        ELSE LET c == get_or_create_category_by_name(db, product_data.category_name, t)
                 b == get_or_create_brand_by_name(c.db, product_data.brand_name, t)
                 final == [row EXCEPT
                             !.category_id = IF c.id # NullId THEN c.id ELSE @,
                             !.brand_id = IF b.id # NullId THEN b.id ELSE @,
                             !.updated_at = t]
             IN  Outcome([b.db EXCEPT !.products =
                                 [db.products EXCEPT ![existing_product] = final]],
                         FALSE, FALSE, existing_product)

\* the branch "else" of upsert_product: create a new product
CreateProduct(db, product_data, t) ==
    LET c == get_or_create_category_by_name(db, product_data.category_name, t)
        b == get_or_create_brand_by_name(c.db, product_data.brand_name, t)
        product == [name |-> product_data.name,
                    slug |-> product_data.slug,
                    url |-> product_data.url,
                    description |-> product_data.description,
                    price |-> product_data.price,
                    discount_percentage |-> Field(product_data, "discount_percentage", NoValue),
                    rating |-> Field(product_data, "rating", NoValue),
                    review_count |-> Field(product_data, "review_count", 0),
                    category_id |-> c.id,
                    brand_id |-> b.id,
                    updated_at |-> t]
        inserted == Append(db.products, product)
    IN  IF \/ product.category_id = NullId      \* category_id is NOT NULL
           \/ ViolatesUnique(inserted, "slug")
           \/ ViolatesUnique(inserted, "url")
        \* IntegrityError: rollback of the insert, raise; what the helpers
        \* committed before stays
        THEN Outcome(b.db, TRUE, FALSE, NullId)
        ELSE Outcome([b.db EXCEPT !.products = inserted],
                     FALSE, TRUE, Len(inserted))

\* the outcomes of upsert_product: one per row .first() may return
upsert_product(db, product_data, t) ==
    LET matching == MatchingProducts(db.products, product_data)
    IN  IF matching # {}
        THEN {UpdateProduct(db, i, product_data, t) : i \in matching}
        ELSE {CreateProduct(db, product_data, t)}

\* the tallies and the database after bulk_upsert_products, processing
\* products_data from position k on
\* variant: the first failing record ends the batch
RECURSIVE BulkFrom_Abort(_, _, _, _, _)
BulkFrom_Abort(db, products_data, k, stats, t) ==
    IF k > Len(products_data) THEN {[db |-> db, stats |-> stats]}
    ELSE UNION {
           IF o.raised
           THEN {[db |-> o.db, stats |-> [stats EXCEPT !.errors = @ + 1]]}
           ELSE BulkFrom_Abort(o.db, products_data, k + 1,
                    IF o.created THEN [stats EXCEPT !.created = @ + 1]
                    ELSE [stats EXCEPT !.updated = @ + 1],
                    t)
           : o \in upsert_product(db, products_data[k], t)}

RECURSIVE BulkFrom(_, _, _, _, _)
BulkFrom(db, products_data, k, stats, t) ==
    IF k > Len(products_data) THEN {[db |-> db, stats |-> stats]}
    ELSE UNION {
           BulkFrom(o.db, products_data, k + 1,
                    IF o.raised THEN [stats EXCEPT !.errors = @ + 1]
                    ELSE IF o.created THEN [stats EXCEPT !.created = @ + 1]
                    ELSE [stats EXCEPT !.updated = @ + 1],
                    t)
           : o \in upsert_product(db, products_data[k], t)}

bulk_upsert_products(db, products_data, t) ==
    BulkFrom(db, products_data, 1,
             [total |-> Len(products_data), created |-> 0, updated |-> 0, errors |-> 0],
             t)

----------------------------------------------------------------------------
(* The calls a client of DatabaseManager makes, as actions.  last records  *)
(* the call of the latest step: its name, its argument, whether it raised  *)
(* and what it returned.                                                   *)

CurrentDb == Db(categories, brands, products)

SetDb(db) ==
    /\ categories' = db.categories
    /\ brands' = db.brands
    /\ products' = db.products

NoCall == [op |-> "none"]

Call(op, arg, o) ==
    [op |-> op, arg |-> arg, raised |-> o.raised, created |-> o.created, id |-> o.id]

\* payloads of the calls
CategoryNames == {<<"a">>, <<"A">>, <<"b">>}
CategorySlugs == {<<"a">>, <<"b">>}
CategoryUrls == {<<"/", "c">>}
BrandNames == {<<"b">>, <<"B">>}
ProductSlugs == {<<"p">>, <<"q">>}
ProductUrls == {<<"/", "p">>, <<"/", "q">>}
Prices == {NoValue, {1}}

CategoryPayloads ==
    [name : CategoryNames, slug : CategorySlugs, url : CategoryUrls,
     description : {<<>>, <<"x">>}, parent_slug : {<<>>} \cup CategorySlugs]

\* the categories the product calls of Spec refer to by name
NamedCategoryPayloads ==
    [name : {<<"a">>, <<"A">>}, slug : {<<"a">>}, url : CategoryUrls,
     description : {<<>>}, parent_slug : {<<>>}]

BrandPayloads ==
    [name : BrandNames, slug : {<<"b">>}, url : {<<>>}, description : {<<>>}]

ProductPayloads ==
    [name : {<<"n">>}, slug : ProductSlugs, url : ProductUrls,
     description : {<<>>}, price : Prices,
     category_name : {<<>>, <<"a">>},
     brand_name : {<<>>, <<"b">>}]

\* the records of the lists given to bulk_upsert_products: records that
\* insert, records that match a row on slug or on url, and a record that
\* cannot be inserted (no category)
BulkPayloads ==
    [name : {<<"n">>}, slug : ProductSlugs, url : ProductUrls,
     description : {<<>>}, price : {{1}},
     category_name : {<<"a">>}, brand_name : {<<>>}]
    \cup
    [name : {<<"n">>}, slug : {<<"q">>}, url : {<<"/", "q">>},
     description : {<<>>}, price : {{1}},
     category_name : {<<>>}, brand_name : {<<"b">>}]

UpsertCategory(payloads) ==
    \E category_data \in payloads :
        LET o == upsert_category(CurrentDb, category_data, now)
        IN  /\ SetDb(o.db)
            /\ last' = Call("upsert_category", category_data, o)
            /\ UNCHANGED <<sessions, now, files, crawl>>

UpsertBrand(payloads) ==
    \E brand_data \in payloads :
        LET o == upsert_brand(CurrentDb, brand_data, now)
        IN  /\ SetDb(o.db)
            /\ last' = Call("upsert_brand", brand_data, o)
            /\ UNCHANGED <<sessions, now, files, crawl>>

UpsertProduct(payloads) ==
    \E product_data \in payloads :
        \E o \in upsert_product(CurrentDb, product_data, now) :
            /\ SetDb(o.db)
            /\ last' = Call("upsert_product", product_data, o)
            /\ UNCHANGED <<sessions, now, files, crawl>>

GetOrCreateCategoryByName(names) ==
    \E category_name \in names :
        LET r == get_or_create_category_by_name(CurrentDb, category_name, now)
        IN  /\ SetDb(r.db)
            /\ last' = [op |-> "get_or_create_category", arg |-> category_name,
                        raised |-> FALSE, created |-> FALSE, id |-> r.id]
            /\ UNCHANGED <<sessions, now, files, crawl>>

GetOrCreateBrandByName(names) ==
    \E brand_name \in names :
        LET r == get_or_create_brand_by_name(CurrentDb, brand_name, now)
        IN  /\ SetDb(r.db)
            /\ last' = [op |-> "get_or_create_brand", arg |-> brand_name,
                        raised |-> FALSE, created |-> FALSE, id |-> r.id]
            /\ UNCHANGED <<sessions, now, files, crawl>>

\* lists of at most n elements of S
ListsUpTo(S, n) == UNION {[1..k -> S] : k \in 0..n}

BulkUpsertProducts(payloads) ==
    \E products_data \in ListsUpTo(payloads, MaxBulk) :
        \E r \in bulk_upsert_products(CurrentDb, products_data, now) :
            /\ SetDb(r.db)
            /\ last' = [op |-> "bulk_upsert_products", arg |-> products_data,
                        raised |-> FALSE, stats |-> r.stats]
            /\ UNCHANGED <<sessions, now, files, crawl>>

----------------------------------------------------------------------------
(* SQL export (exporter.py).  A file is a sequence of pieces: a comment    *)
(* line, the head of a statement, the characters of its string literals,   *)
(* the closing parenthesis and the semicolon.  Numeric columns (the id and *)
(* the foreign keys) are carried by the head of the statement.             *)

Comment == [kind |-> "comment"]
Semicolon == [kind |-> "char", c |-> ";"]
Quote == [kind |-> "char", c |-> "'"]
Comma == [kind |-> "comma"]
Close == [kind |-> "close"]
CreateTable(table) == [kind |-> "create", table |-> table]
InsertInto(table, id, ref) ==
    [kind |-> "insert", table |-> table, id |-> id, ref |-> ref]

Chars(value) == [i \in 1..Len(value) |-> [kind |-> "char", c |-> value[i]]]

RECURSIVE Concat(_)
Concat(seqs) == IF seqs = <<>> THEN <<>> ELSE Head(seqs) \o Concat(Tail(seqs))

\* value.replace("'", "''") between two quotes
escape_sql_string(value) ==
    <<Quote>>
    \o Concat([i \in 1..Len(value) |->
                 IF value[i] = "'" THEN <<Quote, Quote>> ELSE Chars(<<value[i]>>)])
    \o <<Quote>>

\* INSERT OR REPLACE INTO table (...) VALUES (id, 'v1', 'v2', ..., ref);
InsertStatement(table, id, ref, values) ==
    <<InsertInto(table, id, ref)>>
    \o Concat([i \in 1..Len(values) |->
                 (IF i = 1 THEN <<>> ELSE <<Comma>>) \o escape_sql_string(values[i])])
    \o <<Close, Semicolon>>

generate_create_table_sql ==
    <<CreateTable("categories"), Semicolon,
      CreateTable("brands"), Semicolon,
      CreateTable("products"), Semicolon>>

\* variant: every ancestor is appended after its descendant
RECURSIVE categories_appended(_, _, _)
categories_appended(db, current, acc) ==
    IF current = NullId THEN acc
    ELSE categories_appended(db, db.categories[current].parent_id, Append(acc, current))

\* the loop "while current: categories_to_insert.insert(0, current)"
RECURSIVE categories_to_insert(_, _, _)
categories_to_insert(db, current, acc) ==
    IF current = NullId THEN acc
    ELSE categories_to_insert(db, db.categories[current].parent_id, <<current>> \o acc)

generate_category_insert_sql(db, category) ==
    LET chain == categories_to_insert(db, category, <<>>)
    IN  Concat([i \in 1..Len(chain) |->
                  LET cat == db.categories[chain[i]]
                  IN  InsertStatement("categories", chain[i], cat.parent_id,
                                      <<cat.name, cat.slug, cat.url, cat.description>>)])

generate_brand_insert_sql(db, brand) ==
    LET b == db.brands[brand]
    IN  InsertStatement("brands", brand, NullId, <<b.name, b.slug>>)

generate_product_insert_sql(db, product) ==
    LET p == db.products[product]
    IN  InsertStatement("products", product, p.category_id,
                        <<p.name, p.slug, p.url, p.description>>)

\* the ids of the rows of table that satisfy Test, in id order
RECURSIVE IdsWhere(_, _, _)
IdsWhere(table, Test(_), n) ==
    IF n = 0 THEN <<>>
    ELSE IdsWhere(table, Test, n - 1) \o (IF Test(table[n]) THEN <<n>> ELSE <<>>)

\* products of the category, then those of each child category
RECURSIVE get_category_products_recursive(_, _)
get_category_products_recursive(db, category) ==
    LET InCategory(p) == p.category_id = category
        ChildOf(c) == c.parent_id = category
        children == IdsWhere(db.categories, ChildOf, Len(db.categories))
    IN  IdsWhere(db.products, InCategory, Len(db.products))
        \o Concat([i \in 1..Len(children) |->
                     get_category_products_recursive(db, children[i])])

\* the orders in which a set can be iterated
Orderings(S) ==
    {f \in [1..Cardinality(S) -> S] : \A i, j \in DOMAIN f : i # j => f[i] # f[j]}

ProductBrands(db, prods) ==
    {db.products[prods[i]].brand_id : i \in 1..Len(prods)} \ {NullId}

\* the file written for the products of a category; brand_order is the
\* order in which the set of brands happens to be iterated
write_products_sql_file(db, prods, category, brand_order) ==
    <<Comment, Comment, Comment, Comment>>
    \o <<Comment>> \o generate_create_table_sql
    \o <<Comment>> \o generate_category_insert_sql(db, category)
    \o (IF brand_order = <<>> THEN <<>>
        ELSE <<Comment>>
             \o Concat([i \in 1..Len(brand_order) |->
                          generate_brand_insert_sql(db, brand_order[i])]))
    \o <<Comment>>
    \o Concat([i \in 1..Len(prods) |-> generate_product_insert_sql(db, prods[i])])
    \o <<Comment>>

\* sql_content.split(';'): the pieces between consecutive semicolons
SplitStatements(content) ==
    LET cuts == {i \in 1..Len(content) : content[i] = Semicolon}
        Cut(k) == IF k = 0 THEN 0
                  ELSE IF k > Cardinality(cuts) THEN Len(content) + 1
                  ELSE CHOOSE i \in cuts : Cardinality({j \in cuts : j <= i}) = k
    IN  [k \in 1..(Cardinality(cuts) + 1) |->
           SubSeq(content, Cut(k - 1) + 1, Cut(k) - 1)]

\* the number of string literals of a well-formed value list, -1 otherwise;
\* state is "start" before a literal, "in" inside one and "after" behind
\* a quote that closes one (or that is the first half of a doubled quote)
RECURSIVE CountLiterals(_, _, _, _)
CountLiterals(s, i, state, n) ==
    IF i > Len(s) THEN (IF state = "after" THEN n ELSE -1)
    ELSE CASE state = "start" ->
                IF s[i] = Quote THEN CountLiterals(s, i + 1, "in", n + 1) ELSE -1
           [] state = "in" ->
                IF s[i] = Quote THEN CountLiterals(s, i + 1, "after", n)
                ELSE CountLiterals(s, i + 1, "in", n)
           [] OTHER ->
                IF s[i] = Quote THEN CountLiterals(s, i + 1, "in", n)
                ELSE IF s[i] = Comma THEN CountLiterals(s, i + 1, "start", n)
                ELSE -1

Columns(table) == IF table = "brands" THEN 2 ELSE 4

\* whether the database engine accepts the statement as SQL
WellFormed(statement) ==
    \/ Len(statement) = 1 /\ statement[1].kind = "create"
    \/ /\ Len(statement) >= 2
       /\ statement[1].kind = "insert"
       /\ statement[Len(statement)] = Close
       /\ CountLiterals(SubSeq(statement, 2, Len(statement) - 1), 1, "start", 0)
            = Columns(statement[1].table)

\* the temporary database after the statements from the k-th on: its
\* tables, the ids of the product rows, and the errors met
RECURSIVE ExecuteFrom(_, _, _)
ExecuteFrom(statements, k, temp) ==
    IF k > Len(statements) THEN temp
    ELSE LET statement == statements[k]
             failed == [temp EXCEPT !.errors = @ + 1]
         IN  ExecuteFrom(statements, k + 1,
               \* statement.strip() is empty or starts with "--"
               IF statement = <<>> \/ statement[1] = Comment THEN temp
               ELSE IF ~WellFormed(statement) THEN failed
               ELSE IF statement[1].kind = "create"
                    THEN [temp EXCEPT !.tables = @ \cup {statement[1].table}]
               ELSE IF statement[1].table \notin temp.tables THEN failed
               ELSE IF statement[1].table = "products"
                    THEN [temp EXCEPT !.products = @ \cup {statement[1].id}]
               ELSE temp)

validate_exported_sql(content) ==
    LET temp == ExecuteFrom(SplitStatements(content), 1,
                            [tables |-> {}, products |-> {}, errors |-> 0])
    IN  [is_valid |-> temp.errors = 0,
         errors |-> temp.errors,
         records_count |-> IF temp.errors = 0 THEN Cardinality(temp.products) ELSE 0]

WriteFile(fs, path, content) ==
    [f \in DOMAIN fs \cup {path} |-> IF f = path THEN content ELSE fs[f]]

\* the outcomes of export_category_sql(category_slug) on the export
\* directory fs, which maps the slug of a category to the content of
\* <slug>_products.sql: ValueError for an unknown category, no file for a
\* category without products
export_category_sql(db, fs, category_slug) ==
    LET category == FindBy(db.categories, "slug", category_slug)
        prods == get_category_products_recursive(db, category)
    IN  IF category = NullId
        THEN {[files |-> fs, raised |-> TRUE, products_exported |-> 0,
               file_path |-> <<>>]}
        ELSE IF prods = <<>>
        THEN {[files |-> fs, raised |-> FALSE, products_exported |-> 0,
               file_path |-> <<>>]}
        ELSE {[files |-> WriteFile(fs, category_slug,
                           write_products_sql_file(db, prods, category, brand_order)),
               raised |-> FALSE, products_exported |-> Len(prods),
               file_path |-> category_slug]
              : brand_order \in Orderings(ProductBrands(db, prods))}

\* export_all_categories: one file for every category that has products
\* of its own, the root categories first and each one before its children
RECURSIVE export_category_with_subcategories(_, _, _)
RECURSIVE ExportEach(_, _, _, _)
export_category_with_subcategories(db, fs, category) ==
    LET InCategory(p) == p.category_id = category
        ChildOf(c) == c.parent_id = category
        prods == IdsWhere(db.products, InCategory, Len(db.products))
        written ==
            IF prods = <<>> THEN {fs}
            ELSE {WriteFile(fs, db.categories[category].slug,
                      write_products_sql_file(db, prods, category, brand_order))
                  : brand_order \in Orderings(ProductBrands(db, prods))}
    IN  UNION {ExportEach(db, f, IdsWhere(db.categories, ChildOf, Len(db.categories)), 1)
               : f \in written}

ExportEach(db, fs, cats, k) ==
    IF k > Len(cats) THEN {fs}
    ELSE UNION {ExportEach(db, f, cats, k + 1)
                : f \in export_category_with_subcategories(db, fs, cats[k])}

export_all_categories(db, fs) ==
    LET IsRoot(c) == c.parent_id = NullId
    IN  ExportEach(db, fs, IdsWhere(db.categories, IsRoot, Len(db.categories)), 1)

ExportCategorySql(slugs) ==
    \E category_slug \in slugs :
        \E r \in export_category_sql(CurrentDb, files, category_slug) :
            /\ files' = r.files
            /\ last' = [op |-> "export_category_sql", arg |-> category_slug,
                        raised |-> r.raised,
                        products_exported |-> r.products_exported,
                        file_path |-> r.file_path]
            /\ UNCHANGED <<categories, brands, products, sessions, now, crawl>>

\* validate_exported_sql(sql_file_path); a file that cannot be opened is
\* reported invalid
ValidateExportedSql(paths) ==
    \E sql_file_path \in paths :
        /\ last' = [op |-> "validate_exported_sql", arg |-> sql_file_path,
                    result |-> IF sql_file_path \in DOMAIN files
                               THEN validate_exported_sql(files[sql_file_path])
                               ELSE [is_valid |-> FALSE, errors |-> 1,
                                     records_count |-> 0]]
        /\ UNCHANGED <<categories, brands, products, sessions, now, files, crawl>>

----------------------------------------------------------------------------
(* Scraping and normalisation (list_parser.py, detail_parser.py,           *)
(* category_discovery.py, normalizer.py).  A site is what the HTTP client  *)
(* returns during one run: the categories found in the navigation, the     *)
(* pages of product links of every category url, and the detail page of    *)
(* every product url.  A fetch that raises is an empty navigation, an      *)
(* empty page or a missing (Null) detail page: the parsers catch the       *)
(* exception and return that.                                              *)

RECURSIVE SplitPath(_, _, _)
SplitPath(path, i, current) ==
    IF i > Len(path) THEN <<current>>
    ELSE IF path[i] = "/"
         THEN <<current>> \o SplitPath(path, i + 1, <<>>)
         ELSE SplitPath(path, i + 1, Append(current, path[i]))

NonEmpty(part) == part # <<>>

Range(f) == {f[i] : i \in DOMAIN f}

\* the last non-empty part of the path, 'unknown' without one
extract_slug_from_url(url) ==
    LET path_parts == SelectSeq(SplitPath(url, 1, <<>>), NonEmpty)
    IN  IF path_parts # <<>> THEN path_parts[Len(path_parts)] ELSE Unknown

RECURSIVE CollapseSpaces(_)
CollapseSpaces(s) ==
    IF Len(s) < 2 THEN s
    ELSE IF s[1] \in WhiteSpace /\ s[2] \in WhiteSpace THEN CollapseSpaces(Tail(s))
    ELSE <<s[1]>> \o CollapseSpaces(Tail(s))

normalize_text(text) ==
    IF text = <<>> THEN <<>>
    ELSE Strip(CollapseSpaces(Strip(text, WhiteSpace)), WhiteSpace)

normalize_url(url) ==
    IF url = <<>> THEN <<>>
    ELSE LET url_str == Strip(url, WhiteSpace)
         IN  IF url_str # <<>> /\ url_str[1] \notin {"/", "http://"}
             THEN <<"/">> \o url_str
             ELSE url_str

\* A raw field value as the scrapers hand it over: None, a number or text.
\* Numbers are counted in thousandths (4500 is 4.5), stored numbers too.
PyNone == [type |-> "NoneType", number |-> 0, text |-> <<>>]
PyNumber(n) == [type |-> "number", number |-> n, text |-> <<>>]
PyStr(s) == [type |-> "str", number |-> 0, text |-> s]

\* raw_product.get(field): None when the scraper did not set the field
Get(raw_product, field) ==
    IF field \in DOMAIN raw_product THEN raw_product[field] ELSE PyNone

Units(n) == n * 1000

\* the characters matched by \d
DigitChars == {"0", "1", "2", "3", "4", "5", "6", "7", "8", "9"}

DigitValue(c) ==
    CASE c = "0" -> 0 [] c = "1" -> 1 [] c = "2" -> 2 [] c = "3" -> 3
      [] c = "4" -> 4 [] c = "5" -> 5 [] c = "6" -> 6 [] c = "7" -> 7
      [] c = "8" -> 8 [] c = "9" -> 9

\* the value of a run of digits
RECURSIVE DigitsValue(_)
DigitsValue(ds) ==
    IF ds = <<>> THEN 0
    ELSE 10 * DigitsValue(SubSeq(ds, 1, Len(ds) - 1)) + DigitValue(ds[Len(ds)])

\* float(text) for text made of blanks, a sign, digits, periods and
\* characters that are none of these: NoValue stands for ValueError.  The
\* text is a number when, blanks and one leading sign apart, it is digits
\* with at most one period and at least one digit.
ParseFloat(text) ==
    LET stripped == Strip(text, WhiteSpace)
        signed == stripped # <<>> /\ stripped[1] \in {"-", "+"}
        body == IF signed THEN Tail(stripped) ELSE stripped
        periods == {i \in 1..Len(body) : body[i] = "."}
        point == IF periods = {} THEN Len(body) + 1 ELSE CHOOSE i \in periods : TRUE
        whole == SubSeq(body, 1, point - 1)
        fraction == SubSeq(body, point + 1, Len(body))
        thousandths == SubSeq(fraction \o <<"0", "0", "0">>, 1, 3)
        magnitude == Units(DigitsValue(whole)) + DigitsValue(thousandths)
    IN  IF \/ \E i \in 1..Len(body) : body[i] \notin DigitChars \cup {"."}
           \/ Cardinality(periods) > 1
           \/ whole \o fraction = <<>>
        THEN NoValue
        ELSE IF signed /\ stripped[1] = "-" THEN {0 - magnitude} ELSE {magnitude}

\* text.replace(old, '') for a one-character old
Remove(text, old) == SelectSeq(text, LAMBDA c : c # old)

IsPriceChar(c) == c \in DigitChars \cup {".", ","}

normalize_price(price) ==
    IF price.type = "NoneType" \/ price = PyStr(<<>>) THEN NoValue
    ELSE IF price.type = "number"
         THEN IF price.number >= 0 THEN {price.number} ELSE NoValue
         ELSE LET price_clean == SelectSeq(Remove(price.text, ","), IsPriceChar)
              IN  IF price_clean = <<>> THEN NoValue
                  ELSE ParseFloat(price_clean)

\* variant: an out-of-range value is clamped to the nearest bound
InRange_Clamped(value, low, high) ==
    IF value = NoValue THEN NoValue
    ELSE {IF v < low THEN low ELSE IF v > high THEN high ELSE v : v \in value}

\* perc if 0 <= perc <= 100 else None
InRange(value, low, high) ==
    IF value # NoValue /\ \A v \in value : low <= v /\ v <= high
    THEN value ELSE NoValue

normalize_percentage(percentage) ==
    IF percentage.type = "NoneType" \/ percentage = PyStr(<<>>) THEN NoValue
    ELSE IF percentage.type = "number"
         THEN InRange({percentage.number}, 0, Units(100))
         ELSE InRange(ParseFloat(Strip(Remove(percentage.text, "%"), WhiteSpace)),
                      0, Units(100))

normalize_rating(rating) ==
    IF rating.type = "NoneType" \/ rating = PyStr(<<>>) THEN NoValue
    ELSE IF rating.type = "number"
         THEN InRange({rating.number}, 0, Units(5))
         ELSE InRange(ParseFloat(Strip(rating.text, WhiteSpace)), 0, Units(5))

Max(a, b) == IF a >= b THEN a ELSE b

\* int(x) truncates towards zero
Truncate(n) == IF n >= 0 THEN n \div 1000 ELSE 0 - ((0 - n) \div 1000)

\* a count: a plain integer, never absent
normalize_integer(value) ==
    IF value.type = "NoneType" \/ value = PyStr(<<>>) THEN 0
    ELSE IF value.type = "number" THEN Max(0, Truncate(value.number))
    ELSE LET parsed == ParseFloat(Remove(value.text, ","))
         IN  IF parsed = NoValue THEN 0
             ELSE Max(0, Truncate(CHOOSE v \in parsed : TRUE))

normalize_product(raw_product) ==
    [name |-> normalize_text(raw_product.name),
     slug |-> normalize_slug(raw_product.slug),
     url |-> normalize_url(raw_product.url),
     description |-> normalize_text(raw_product.description),
     price |-> normalize_price(Get(raw_product, "price")),
     discount_percentage |-> normalize_percentage(Get(raw_product, "discount_percentage")),
     rating |-> normalize_rating(Get(raw_product, "rating")),
     review_count |-> normalize_integer(Get(raw_product, "review_count")),
     brand_name |-> normalize_text(raw_product.brand_name),
     category_name |-> normalize_text(raw_product.category_name)]

normalize_category(raw_category) ==
    [name |-> normalize_text(raw_category.name),
     slug |-> normalize_slug(raw_category.slug),
     url |-> normalize_url(raw_category.url),
     description |-> normalize_text(raw_category.description),
     parent_slug |-> normalize_slug(raw_category.parent_slug)]

\* a relative url, or an absolute one ("http://" is one character of the
\* text) with a host after the scheme
is_valid_url(url) ==
    /\ url # <<>>
    /\ \/ url[1] = "/"
       \/ url[1] = "http://" /\ Len(url) > 1 /\ url[2] \notin {"/", "?", "#"}

\* name, slug and url are required and the url must be well formed: these
\* are errors; a negative price and a rating outside 0..5 are warnings
validate_normalized_product(product) ==
    LET errors ==
            {f \in {"name", "slug", "url"} : product[f] = <<>>}
            \cup (IF product.url # <<>> /\ ~is_valid_url(product.url)
                  THEN {"Invalid URL"} ELSE {})
        warnings ==
            (IF product.price # NoValue /\ \E v \in product.price : v < 0
             THEN {"Invalid price"} ELSE {})
            \cup (IF product.rating # NoValue
                     /\ \E v \in product.rating : v < 0 \/ v > Units(5)
                  THEN {"Invalid rating"} ELSE {})
    IN  [is_valid |-> errors = {}, errors |-> errors, warnings |-> warnings]

\* an entry of a product list page: what _extract_product_from_element
\* reads of a product card
ListItem(url) ==
    [name |-> <<"n">>, slug |-> extract_slug_from_url(url), url |-> url,
     description |-> <<>>, price |-> PyNone, brand_name |-> <<>>,
     category_name |-> <<>>]

\* a page of a listing as the site serves it: the product links on it and
\* whether it shows a next-page marker
Page(items, next) == [items |-> items, next |-> next]

\* session.get(page_url) of a page that does not exist, or that fails
NoPage == Page(<<>>, FALSE)

FetchPage(pages, page) == IF page \in 1..Len(pages) THEN pages[page] ELSE NoPage

\* _parse_single_page: one request, the product cards of the page
parse_single_page(pages, page) ==
    LET items == FetchPage(pages, page).items
    IN  [i \in 1..Len(items) |-> ListItem(items[i])]

\* _has_next_page: a second request of the page, looking for the marker
has_next_page(pages, page) == FetchPage(pages, page).next

\* variant: the loop ignores max_pages
RECURSIVE PagesFrom_NoCap(_, _, _)
PagesFrom_NoCap(pages, current_page, max_pages) ==
    LET page_products == parse_single_page(pages, current_page)
    IN  IF page_products = <<>>
        THEN [products |-> <<>>, requests |-> <<current_page>>]
        ELSE IF ~has_next_page(pages, current_page)
        THEN [products |-> page_products,
              requests |-> <<current_page, current_page>>]
        ELSE LET rest == PagesFrom_NoCap(pages, current_page + 1, max_pages)
             IN  [products |-> page_products \o rest.products,
                  requests |-> <<current_page, current_page>> \o rest.requests]

\* the loop of parse_category_page from current_page on: the products
\* accumulated and the numbers of the pages requested, in order.  The
\* loop stops at the first page that is empty, that reaches max_pages
\* (0 stands for None; the code treats both as no limit) or that shows no
\* next-page marker
RECURSIVE PagesFrom(_, _, _)
PagesFrom(pages, current_page, max_pages) ==
    LET page_products == parse_single_page(pages, current_page)
    IN  IF page_products = <<>>
        THEN [products |-> <<>>, requests |-> <<current_page>>]
        ELSE IF max_pages # 0 /\ current_page >= max_pages
        THEN [products |-> page_products, requests |-> <<current_page>>]
        ELSE IF ~has_next_page(pages, current_page)
        THEN [products |-> page_products,
              requests |-> <<current_page, current_page>>]
        ELSE LET rest == PagesFrom(pages, current_page + 1, max_pages)
             IN  [products |-> page_products \o rest.products,
                  requests |-> <<current_page, current_page>> \o rest.requests]

\* the listing of a category url the site does not serve has no page
parse_category_page(site, category_url, max_pages) ==
    PagesFrom(IF category_url \in DOMAIN site.pages THEN site.pages[category_url]
              ELSE <<>>,
              1, max_pages)

\* an optional value: None is the empty sequence, the value v is <<v>>
None == <<>>

\* None when the fetch or the parse raised; the url and the slug of the
\* result are those of the request, the category is present only when
\* the structured data of the page names one
parse_product_detail(site, product_url) ==
    IF product_url \notin DOMAIN site.detail \/ site.detail[product_url] = None
    THEN None
    ELSE LET page == site.detail[product_url][1]
         IN  <<[name |-> page.name,
                slug |-> extract_slug_from_url(product_url),
                url |-> product_url,
                description |-> <<>>, price |-> PyNumber(1), brand_name |-> <<>>,
                category_name |-> page.category_name]>>

----------------------------------------------------------------------------
(* Crawl sessions (database.py).  The table is a set of rows; a new row    *)
(* gets the id after the largest one in use.                               *)

MaxOf(S) == IF S = {} THEN 0 ELSE CHOOSE m \in S : \A x \in S : x <= m

\* variant: a run reuses the latest session instead of adding one
start_crawl_session_Reuse(ss, t) ==
    IF ss # {} THEN [sessions |-> ss, id |-> MaxOf({row.id : row \in ss})]
    ELSE LET crawl_session ==
                 [id |-> 1,
                  started_at |-> t, finished_at |-> NoValue, status |-> "running",
                  categories_found |-> 0, products_found |-> 0,
                  products_updated |-> 0, products_created |-> 0, errors |-> Null]
         IN  [sessions |-> {crawl_session}, id |-> 1]

start_crawl_session(ss, t) ==
    LET crawl_session ==
            [id |-> MaxOf({row.id : row \in ss}) + 1,
             started_at |-> t, finished_at |-> NoValue, status |-> "running",
             categories_found |-> 0, products_found |-> 0,
             products_updated |-> 0, products_created |-> 0, errors |-> Null]
    IN  [sessions |-> ss \cup {crawl_session}, id |-> crawl_session.id]

\* variant: an id that matches no row finishes the latest session
finish_crawl_session_Latest(ss, crawl_session_id, status, run_stats, errors, t) ==
    LET target == IF \E row \in ss : row.id = crawl_session_id
                  THEN crawl_session_id ELSE MaxOf({row.id : row \in ss})
    IN  {IF row.id # target THEN row
         ELSE [row EXCEPT !.finished_at = {t},
                          !.status = status,
                          !.categories_found = run_stats.categories_found,
                          !.products_found = run_stats.products_found,
                          !.products_created = run_stats.products_created,
                          !.products_updated = run_stats.products_updated,
                          !.errors = IF errors # "" THEN errors ELSE @]
         : row \in ss}

\* variant: the text of the error is not stored
finish_crawl_session_NoErrors(ss, crawl_session_id, status, run_stats, errors, t) ==
    {IF row.id # crawl_session_id THEN row
     ELSE [row EXCEPT !.finished_at = {t},
                      !.status = status,
                      !.categories_found = run_stats.categories_found,
                      !.products_found = run_stats.products_found,
                      !.products_created = run_stats.products_created,
                      !.products_updated = run_stats.products_updated]
     : row \in ss}

\* stats is always the non-empty map of the crawler here; errors is a
\* text, the empty text standing for no text given
finish_crawl_session(ss, crawl_session_id, status, run_stats, errors, t) ==
    {IF row.id # crawl_session_id THEN row
     ELSE [row EXCEPT !.finished_at = {t},
                      !.status = status,
                      !.categories_found = run_stats.categories_found,
                      !.products_found = run_stats.products_found,
                      !.products_created = run_stats.products_created,
                      !.products_updated = run_stats.products_updated,
                      !.errors = IF errors # "" THEN errors ELSE @]
     : row \in ss}

\* variant: a session started exactly at the cutoff is deleted too
cleanup_old_sessions_Inclusive(ss, days_old, t) ==
    {row \in ss : ~(row.started_at <= t - days_old)}

\* the rows left by cleanup_old_sessions: the clock counts days, the
\* cutoff is utcnow() - timedelta(days=days_old)
cleanup_old_sessions(ss, days_old, t) ==
    LET cutoff_date == t - days_old
    IN  {row \in ss : ~(row.started_at < cutoff_date)}

----------------------------------------------------------------------------
(* The orchestrator (crawler.py).  The body of a run is a function from    *)
(* the database, the export directory, the statistics of the crawler and   *)
(* the site to the possible results: the database and the directory after  *)
(* the body, the statistics, and the text of the exception that escaped    *)
(* the body ("" when it completed), and whether the body requested any     *)
(* page of the site.                                                       *)

ZeroStats ==
    [categories_found |-> 0, categories_processed |-> 0, products_found |-> 0,
     products_processed |-> 0, products_created |-> 0, products_updated |-> 0,
     errors |-> 0]

Result(db, fs, run_stats, raised, fetched) ==
    [db |-> db, files |-> fs, stats |-> run_stats, raised |-> raised,
     fetched |-> fetched]

CountOf(flags, flag) == Cardinality({i \in 1..Len(flags) : flags[i] = flag})

\* _process_products_batch from the k-th record on: processed holds
\* was_created of every record saved so far, errors the records that raised
RECURSIVE process_products_batch(_, _, _, _, _, _)
process_products_batch(db, products_data, k, processed, errors, t) ==
    IF k > Len(products_data)
    THEN {[db |-> db, processed |-> processed, errors |-> errors]}
    ELSE LET normalized_product == normalize_product(products_data[k])
         IN  IF ~validate_normalized_product(normalized_product).is_valid
             THEN process_products_batch(db, products_data, k + 1, processed, errors, t)
             ELSE UNION {
                    IF o.raised
                    THEN process_products_batch(o.db, products_data, k + 1,
                                                processed, errors + 1, t)
                    ELSE process_products_batch(o.db, products_data, k + 1,
                                                Append(processed, o.created), errors, t)
                    : o \in upsert_product(db, normalized_product, t)}

\* the list records whose detail page could be parsed, merged with it
\* ({**product_data, **detailed_product})
RECURSIVE DetailedProducts(_, _)
DetailedProducts(site, products_data) ==
    IF products_data = <<>> THEN <<>>
    ELSE LET product_data == Head(products_data)
             detailed_product == parse_product_detail(site, product_data.url)
         IN  (IF detailed_product = None THEN <<>>
              ELSE <<[f \in DOMAIN product_data \cup DOMAIN detailed_product[1] |->
                        IF f \in DOMAIN detailed_product[1] THEN detailed_product[1][f]
                        ELSE product_data[f]]>>)
             \o DetailedProducts(site, Tail(products_data))

\* _crawl_single_category: the statistics of the category, and the
\* errors that the batch adds to the statistics of the crawler
crawl_single_category(db, site, category_data, skip_detail_parsing, t) ==
    LET listed == parse_category_page(site, category_data.url, 0).products
        products_data == IF skip_detail_parsing THEN listed
                         ELSE DetailedProducts(site, listed)
    IN  {[db |-> r.db, errors |-> r.errors,
          category_stats |->
              [products_found |-> Len(listed),
               products_processed |-> Len(r.processed),
               products_created |-> CountOf(r.processed, TRUE),
               products_updated |-> CountOf(r.processed, FALSE),
               errors |-> 0]]
         : r \in process_products_batch(db, products_data, 1, <<>>, 0, t)}

\* variant: the categories after one whose listing is empty are not crawled
RECURSIVE crawl_categories_StopOnEmpty(_, _, _, _, _, _, _, _)
crawl_categories_StopOnEmpty(db, run_stats, site, cats, order, k, skip_detail_parsing, t) ==
    IF k > Len(order) THEN {[db |-> db, stats |-> run_stats]}
    ELSE IF parse_category_page(site, cats[order[k]].url, 0).products = <<>>
    THEN {[db |-> db, stats |-> run_stats]}
    ELSE UNION {
           crawl_categories_StopOnEmpty(r.db,
               [run_stats EXCEPT
                  !.categories_processed = @ + 1,
                  !.products_found = @ + r.category_stats.products_found,
                  !.products_processed = @ + r.category_stats.products_processed,
                  !.products_created = @ + r.category_stats.products_created,
                  !.products_updated = @ + r.category_stats.products_updated,
                  !.errors = @ + r.category_stats.errors + r.errors],
               site, cats, order, k + 1, skip_detail_parsing, t)
           : r \in crawl_single_category(db, site, cats[order[k]],
                                         skip_detail_parsing, t)}

\* _crawl_categories, the tasks taken in the order in which they complete
RECURSIVE crawl_categories(_, _, _, _, _, _, _, _)
crawl_categories(db, run_stats, site, cats, order, k, skip_detail_parsing, t) ==
    IF k > Len(order) THEN {[db |-> db, stats |-> run_stats]}
    ELSE UNION {
           crawl_categories(r.db,
               [run_stats EXCEPT
                  !.categories_processed = @ + 1,
                  !.products_found = @ + r.category_stats.products_found,
                  !.products_processed = @ + r.category_stats.products_processed,
                  !.products_created = @ + r.category_stats.products_created,
                  !.products_updated = @ + r.category_stats.products_updated,
                  !.errors = @ + r.category_stats.errors + r.errors],
               site, cats, order, k + 1, skip_detail_parsing, t)
           : r \in crawl_single_category(db, site, cats[order[k]],
                                         skip_detail_parsing, t)}

\* _discover_and_save_categories: every category found is normalised and
\* upserted, one that cannot be saved is counted as an error
RECURSIVE discover_and_save_categories(_, _, _, _, _)
discover_and_save_categories(db, errors, categories_data, k, t) ==
    IF k > Len(categories_data) THEN [db |-> db, errors |-> errors]
    ELSE LET o == upsert_category(db, normalize_category(categories_data[k]), t)
         IN  discover_and_save_categories(o.db,
                                          IF o.raised THEN errors + 1 ELSE errors,
                                          categories_data, k + 1, t)

full_crawl(db, fs, run_stats, site, skip_detail_parsing, t) ==
    LET saved == discover_and_save_categories(db, run_stats.errors,
                                              site.categories, 1, t)
        found == [run_stats EXCEPT !.categories_found = Len(site.categories),
                                   !.errors = saved.errors]
    IN  UNION {
          UNION {
            \* discover_categories has requested the main page
            {Result(c.db, f, c.stats, "", TRUE)
             : f \in export_all_categories(c.db, fs)}
            : c \in crawl_categories(saved.db, found, site, site.categories,
                                     order, 1, skip_detail_parsing, t)}
          : order \in Orderings(1..Len(site.categories))}

\* get_products_modified_since: the rows with updated_at >= since_date
get_products_modified_since(db, since_date) ==
    LET Modified(p) == p.updated_at >= since_date
    IN  IdsWhere(db.products, Modified, Len(db.products))

\* _update_existing_products over the urls of the rows read before the
\* pass: a product whose page cannot be parsed is skipped, one whose
\* upsert raises is counted as an error
RECURSIVE update_existing_products(_, _, _, _, _, _, _)
update_existing_products(db, errors, site, urls, k, updated_count, t) ==
    IF k > Len(urls)
    THEN {[db |-> db, errors |-> errors, updated_count |-> updated_count]}
    ELSE LET detailed_product == parse_product_detail(site, urls[k])
         IN  IF detailed_product = None
             THEN update_existing_products(db, errors, site, urls, k + 1,
                                           updated_count, t)
             ELSE UNION {
                    IF o.raised
                    THEN update_existing_products(o.db, errors + 1, site, urls,
                                                  k + 1, updated_count, t)
                    ELSE update_existing_products(o.db, errors, site, urls,
                                                  k + 1, updated_count + 1, t)
                    : o \in upsert_product(db, normalize_product(detailed_product[1]), t)}

IntegrityError == "IntegrityError"
CategoryNotFound == "Category not found in database"

\* the products of one first page that are not stored yet: the detail
\* page of each is fetched and upserted; an upsert that raises ends the
\* pass (nothing catches it before the handler of the run)
RECURSIVE NewProductsOfPage(_, _, _, _, _, _)
NewProductsOfPage(db, site, products_data, k, new_products_count, t) ==
    IF k > Len(products_data)
    THEN {[db |-> db, raised |-> "", new_products_count |-> new_products_count]}
    ELSE LET normalized_product == normalize_product(products_data[k])
             detailed_product == parse_product_detail(site, products_data[k].url)
         IN  IF \/ FindBy(db.products, "slug", normalized_product.slug) # NullId
                \/ detailed_product = None
             THEN NewProductsOfPage(db, site, products_data, k + 1,
                                    new_products_count, t)
             ELSE UNION {
                    IF o.raised
                    THEN {[db |-> o.db, raised |-> IntegrityError,
                           new_products_count |-> new_products_count]}
                    ELSE NewProductsOfPage(o.db, site, products_data, k + 1,
                                           new_products_count + 1, t)
                    : o \in upsert_product(db, normalize_product(detailed_product[1]), t)}

\* the first page of every discovered category that is stored under the
\* slug found on the site
RECURSIVE NewProducts(_, _, _, _, _, _)
NewProducts(db, site, categories_data, k, new_products_count, t) ==
    IF k > Len(categories_data)
    THEN {[db |-> db, raised |-> "", new_products_count |-> new_products_count]}
    ELSE IF FindBy(db.categories, "slug", categories_data[k].slug) = NullId
    THEN NewProducts(db, site, categories_data, k + 1, new_products_count, t)
    ELSE UNION {
           IF r.raised # "" THEN {r}
           ELSE NewProducts(r.db, site, categories_data, k + 1,
                            r.new_products_count, t)
           : r \in NewProductsOfPage(db, site,
                       parse_category_page(site, categories_data[k].url, 1).products,
                       1, new_products_count, t)}

incremental_crawl(db, fs, run_stats, site, since_date, t) ==
    LET existing_products == get_products_modified_since(db, since_date)
        urls == [i \in 1..Len(existing_products) |->
                   db.products[existing_products[i]].url]
    IN  UNION {
          LET saved == discover_and_save_categories(u.db, u.errors,
                                                    site.categories, 1, t)
              updated == [run_stats EXCEPT !.products_updated = u.updated_count,
                                           !.errors = saved.errors]
          \* discover_categories has requested the main page
          IN  {IF n.raised # "" THEN Result(n.db, fs, updated, n.raised, TRUE)
               ELSE Result(n.db, fs,
                      [updated EXCEPT
                         !.products_created = n.new_products_count,
                         !.products_processed = u.updated_count + n.new_products_count],
                      "", TRUE)
               : n \in NewProducts(saved.db, site, site.categories, 1, 0, t)}
          : u \in update_existing_products(db, run_stats.errors, site, urls, 1, 0, t)}

\* variant: a category that is not stored is not an error, the run has
\* nothing to do
crawl_category_NotFoundIgnored(db, fs, run_stats, site, category_slug, t) ==
    LET category == FindBy(db.categories, "slug", category_slug)
        listing == parse_category_page(site, db.categories[category].url, 0)
        products_data == listing.products
    IN  IF category = NullId THEN {Result(db, fs, run_stats, "", FALSE)}
        ELSE UNION {
               LET processed ==
                     [run_stats EXCEPT
                        !.products_found = Len(products_data),
                        !.errors = @ + r.errors,
                        !.products_processed = Len(r.processed),
                        !.products_created = CountOf(r.processed, TRUE),
                        !.products_updated = CountOf(r.processed, FALSE)]
               IN  {Result(r.db, e.files, processed,
                           IF e.raised THEN CategoryNotFound ELSE "",
                           listing.requests # <<>>)
                    : e \in export_category_sql(r.db, fs, category_slug)}
               : r \in process_products_batch(db, products_data, 1, <<>>, 0, t)}

\* a category that is not stored raises ValueError before anything else
\* is done; otherwise the listing is parsed, the batch processed and the
\* category exported
crawl_category(db, fs, run_stats, site, category_slug, t) ==
    LET category == FindBy(db.categories, "slug", category_slug)
        listing == parse_category_page(site, db.categories[category].url, 0)
        products_data == listing.products
    IN  IF category = NullId
        THEN {Result(db, fs, run_stats, CategoryNotFound, FALSE)}
        ELSE UNION {
               LET processed ==
                     [run_stats EXCEPT
                        !.products_found = Len(products_data),
                        !.errors = @ + r.errors,
                        !.products_processed = Len(r.processed),
                        !.products_created = CountOf(r.processed, TRUE),
                        !.products_updated = CountOf(r.processed, FALSE)]
               IN  {Result(r.db, e.files, processed,
                           IF e.raised THEN CategoryNotFound ELSE "",
                           listing.requests # <<>>)
                    : e \in export_category_sql(r.db, fs, category_slug)}
               : r \in process_products_batch(db, products_data, 1, <<>>, 0, t)}

\* incremental_crawl(since_days)
SinceDays == {1}

\* what the site can serve during a run
RawCategoryA ==
    [name |-> <<"a">>, slug |-> <<"a">>, url |-> <<"/", "a">>,
     description |-> <<>>, parent_slug |-> <<>>]

RawCategoryB ==
    [name |-> <<"b">>, slug |-> <<"b">>, url |-> <<"/", "b">>,
     description |-> <<>>, parent_slug |-> <<"a">>]

DetailPages_NoCategory == [name |-> <<"n">>, category_name |-> <<>>]

DetailPages_A == <<[name |-> <<"n">>, category_name |-> <<"a">>]>>

\* the product lists: nothing can be fetched, one page in one category, or
\* two pages in a category whose first product is also listed in the other
PageSets ==
    {[u \in {RawCategoryA.url, RawCategoryB.url} |-> <<>>],
     [u \in {RawCategoryA.url, RawCategoryB.url} |->
        IF u = RawCategoryA.url THEN <<Page(<< <<"/", "p">> >>, FALSE)>> ELSE <<>>],
     [u \in {RawCategoryA.url, RawCategoryB.url} |->
        IF u = RawCategoryA.url
        THEN <<Page(<< <<"/", "p">> >>, TRUE), Page(<< <<"/", "q">> >>, FALSE)>>
        ELSE <<Page(<< <<"/", "p">> >>, FALSE)>>]}

\* the detail pages: none can be fetched, or all but the first one, or
\* all of them, the first one with or without the category of the product
DetailSets ==
    {[u \in ProductUrls |-> None]}
    \cup {[u \in ProductUrls |-> IF u = <<"/", "p">> THEN page ELSE DetailPages_A]
          : page \in {None, DetailPages_A, <<DetailPages_NoCategory>>}}

Sites ==
    [categories : {<<>>, <<RawCategoryA>>, <<RawCategoryA, RawCategoryB>>},
     pages : PageSets,
     detail : DetailSets]

\* the site is of no use once the body of the run has ended
NoSite == [categories |-> <<>>, pages |-> <<>>, detail |-> <<>>]

\* the pages a listing can consist of: a page without product cards, and
\* pages with a card, with or without a next-page marker
PageKinds ==
    {Page(<<>>, TRUE),
     Page(<< <<"/", "p">> >>, TRUE),
     Page(<< <<"/", "q">> >>, TRUE),
     Page(<< <<"/", "q">> >>, FALSE)}

\* parse_category_page(category_url, max_pages) on a listing of up to
\* MaxPages pages; max_pages = 0 stands for None
ParseCategoryPage ==
    \E pages \in ListsUpTo(PageKinds, MaxPages), max_pages \in 0..MaxPages :
        LET site == [NoSite EXCEPT !.pages = [u \in {RawCategoryA.url} |-> pages]]
            r == parse_category_page(site, RawCategoryA.url, max_pages)
        IN  /\ last' = [op |-> "parse_category_page",
                        arg |-> [pages |-> pages, max_pages |-> max_pages],
                        products |-> r.products, requests |-> r.requests]
            /\ UNCHANGED <<categories, brands, products, sessions, now, files, crawl>>

\* the entry points of the crawler start a crawl session and remember it
StartRun(kind, arg) ==
    /\ crawl.phase = "idle"
    /\ Cardinality(sessions) < MaxSessions
    /\ \E site \in Sites :
         LET started == start_crawl_session(sessions, now)
         IN  /\ sessions' = started.sessions
             /\ crawl' = [phase |-> "running", kind |-> kind, arg |-> arg,
                          site |-> site, session_id |-> started.id,
                          start_time |-> now, stats |-> crawl.stats, error |-> "",
                          fetched |-> FALSE]
    /\ UNCHANGED <<categories, brands, products, now, last, files>>

StartFullCrawl ==
    \E skip_detail_parsing \in BOOLEAN :
        StartRun("full_crawl", [skip_detail_parsing |-> skip_detail_parsing])

StartIncrementalCrawl ==
    \E since_days \in SinceDays :
        StartRun("incremental_crawl", [since_days |-> since_days])

StartCrawlCategory ==
    \E category_slug \in {<<"a">>, <<"z">>} :
        StartRun("crawl_category", [category_slug |-> category_slug])

\* the body of the run, inside try: its result is kept until the run
\* finalizes the session
Body(kind, results) ==
    /\ crawl.phase = "running"
    /\ crawl.kind = kind
    /\ \E r \in results :
         /\ SetDb(r.db)
         /\ files' = r.files
         /\ crawl' = [crawl EXCEPT !.phase = IF r.raised = "" THEN "completed" ELSE "failed",
                                   !.stats = r.stats,
                                   !.error = r.raised,
                                   !.fetched = r.fetched,
                                   !.site = NoSite]
    /\ UNCHANGED <<sessions, now, last>>

FullCrawlBody ==
    Body("full_crawl",
         IF crawl.phase = "running" /\ crawl.kind = "full_crawl"
         THEN full_crawl(CurrentDb, files, crawl.stats, crawl.site,
                         crawl.arg.skip_detail_parsing, now)
         ELSE {})

IncrementalCrawlBody ==
    Body("incremental_crawl",
         IF crawl.phase = "running" /\ crawl.kind = "incremental_crawl"
         THEN incremental_crawl(CurrentDb, files, crawl.stats, crawl.site,
                                crawl.start_time - crawl.arg.since_days, now)
         ELSE {})

CrawlCategoryBody ==
    Body("crawl_category",
         IF crawl.phase = "running" /\ crawl.kind = "crawl_category"
         THEN crawl_category(CurrentDb, files, crawl.stats, crawl.site,
                             crawl.arg.category_slug, now)
         ELSE {})

\* the end of try: the session is finalized as completed and the
\* statistics are returned
FinishRun ==
    /\ crawl.phase = "completed"
    /\ sessions' = finish_crawl_session(sessions, crawl.session_id, "completed",
                                        crawl.stats, "", now)
    /\ last' = [op |-> crawl.kind, arg |-> crawl.arg, raised |-> FALSE,
                stats |-> <<crawl.stats>>, error |-> "",
                session_id |-> crawl.session_id]
    /\ crawl' = [phase |-> "idle", stats |-> crawl.stats]
    /\ UNCHANGED <<categories, brands, products, now, files>>

\* variant: the exception is raised again without finalizing the session
FailRun_NoFinalize ==
    /\ crawl.phase = "failed"
    /\ last' = [op |-> crawl.kind, arg |-> crawl.arg, raised |-> TRUE,
                stats |-> None, error |-> crawl.error,
                session_id |-> crawl.session_id]
    /\ crawl' = [phase |-> "idle", stats |-> crawl.stats]
    /\ UNCHANGED <<categories, brands, products, sessions, now, files>>

\* except Exception as e: the session is finalized as failed with str(e),
\* and e is raised again
FailRun ==
    /\ crawl.phase = "failed"
    /\ sessions' = finish_crawl_session(sessions, crawl.session_id, "failed",
                                        crawl.stats, crawl.error, now)
    /\ last' = [op |-> crawl.kind, arg |-> crawl.arg, raised |-> TRUE,
                stats |-> None, error |-> crawl.error,
                session_id |-> crawl.session_id]
    /\ crawl' = [phase |-> "idle", stats |-> crawl.stats]
    /\ UNCHANGED <<categories, brands, products, now, files>>

\* time passes between calls
Tick ==
    /\ now < MaxTime
    /\ now' = now + 1
    /\ UNCHANGED <<categories, brands, products, sessions, last, files, crawl>>

Idle == [phase |-> "idle", stats |-> ZeroStats]

Init ==
    /\ categories = <<>>
    /\ brands = <<>>
    /\ products = <<>>
    /\ sessions = {}
    /\ now = 0
    /\ last = NoCall
    /\ files = <<>>
    /\ crawl = Idle

Next ==
    \/ UpsertCategory(NamedCategoryPayloads)
    \/ UpsertBrand(BrandPayloads)
    \/ UpsertProduct(ProductPayloads)
    \/ GetOrCreateCategoryByName({<<>>, <<"a">>, <<"A">>})
    \/ GetOrCreateBrandByName({<<>>} \cup BrandNames)

Spec == Init /\ [][Next]_vars

\* the bulk upsert, after and between single upserts
NextBulk ==
    \/ UpsertProduct(BulkPayloads)
    \/ BulkUpsertProducts(BulkPayloads)

SpecBulk == Init /\ [][NextBulk]_vars

\* the category tree: upserts with parents, and the get-or-create helper
NextCategory ==
    \/ UpsertCategory(CategoryPayloads)
    \/ GetOrCreateCategoryByName({<<>>} \cup CategoryNames)
    \/ UpsertBrand(BrandPayloads)
    \/ GetOrCreateBrandByName({<<>>} \cup BrandNames)

SpecCategory == Init /\ [][NextCategory]_vars

\* the exporter: a small catalogue is built, exported and validated
ExportCategoryPayloads ==
    {[name |-> <<"a">>, slug |-> <<"a">>, url |-> <<"/", "c">>,
      description |-> <<>>, parent_slug |-> <<>>],
     [name |-> <<"b">>, slug |-> <<"b">>, url |-> <<"/", "c">>,
      description |-> <<>>, parent_slug |-> <<"a">>]}

ExportProductPayloads ==
    [name : {<<"n">>}, slug : {<<"p">>}, url : {<<"/", "p">>},
     description : {<<"x", "'">>, <<"x", ";">>}, price : {{1}},
     category_name : {<<"a">>, <<"b">>}, brand_name : {<<"b">>}]
    \cup
    [name : {<<"n">>}, slug : {<<"q">>}, url : {<<"/", "q">>},
     description : {<<>>}, price : {{1}},
     category_name : {<<"b">>}, brand_name : {<<>>}]

NextExport ==
    \/ UpsertCategory(ExportCategoryPayloads)
    \/ UpsertProduct(ExportProductPayloads)
    \/ ExportCategorySql(CategorySlugs \cup {<<"z">>})
    \/ ValidateExportedSql(CategorySlugs)

SpecExport == Init /\ [][NextExport]_vars

\* the orchestrator: runs of the three entry points, one after another
NextCrawl ==
    \/ StartFullCrawl
    \/ StartIncrementalCrawl
    \/ StartCrawlCategory
    \/ FullCrawlBody
    \/ IncrementalCrawlBody
    \/ CrawlCategoryBody
    \/ FinishRun
    \/ FailRun
    \/ Tick

SpecCrawl == Init /\ [][NextCrawl]_vars

\* a run is sequential code: when its body has returned or raised, the
\* statements that finalize the session and end the run are executed
SpecCrawlFair == SpecCrawl /\ WF_vars(FinishRun \/ FailRun)

\* repeated upserts of one category, one brand and one product, with and
\* without a description, a price and a brand
UpdateCategoryPayloads ==
    [name : {<<"a">>, <<"A">>}, slug : {<<"a">>}, url : CategoryUrls,
     description : {<<>>, <<"x">>}, parent_slug : {<<>>}]

UpdateBrandPayloads ==
    [name : {<<"b">>}, slug : {<<"b">>}, url : {<<>>},
     description : {<<>>, <<"x">>}]

UpdateProductPayloads ==
    [name : {<<"n">>}, slug : {<<"p">>}, url : {<<"/", "p">>},
     description : {<<>>, <<"x">>}, price : Prices,
     category_name : {<<"a">>}, brand_name : {<<>>, <<"b">>}]

NextUpdate ==
    \/ UpsertCategory(UpdateCategoryPayloads)
    \/ UpsertBrand(UpdateBrandPayloads)
    \/ UpsertProduct(UpdateProductPayloads)
    \/ Tick

SpecUpdate == Init /\ [][NextUpdate]_vars

\* the orchestrator's batch step on its own: the records a parser can
\* hand over.  The numeric fields are absent, in range, or out of range
\* as numbers or as text; a record may lack its category, its name, its
\* slug or its url, or carry an absolute url without a host.
RawNumbers ==
    {[price |-> PyNone, discount_percentage |-> PyNone, rating |-> PyNone,
      review_count |-> PyNone],
     [price |-> PyNumber(Units(1)), discount_percentage |-> PyStr(<<"5", "0", "%">>),
      rating |-> PyNumber(4500), review_count |-> PyNumber(Units(2))],
     [price |-> PyNumber(Units(0 - 1)), discount_percentage |-> PyNumber(Units(150)),
      rating |-> PyNumber(Units(6)), review_count |-> PyNumber(Units(0 - 3))],
     [price |-> PyStr(<<"x">>), discount_percentage |-> PyStr(<<"1", "5", "0", "%">>),
      rating |-> PyStr(<<"-", "1">>), review_count |-> PyStr(<<"x">>)]}

NoNumbers == CHOOSE numbers \in RawNumbers : numbers.rating = PyNone

RawProduct(name, slug, url, category_name, numbers) ==
    [name |-> name, slug |-> slug, url |-> url, description |-> <<>>,
     brand_name |-> <<>>, category_name |-> category_name,
     price |-> numbers.price, discount_percentage |-> numbers.discount_percentage,
     rating |-> numbers.rating, review_count |-> numbers.review_count]

RawProducts ==
    {RawProduct(<<"n">>, slug, <<"/">> \o slug, <<"a">>, numbers) :
        slug \in ProductSlugs, numbers \in RawNumbers}
    \cup {RawProduct(<<"n">>, <<"p">>, <<"/", "p">>, <<>>, NoNumbers),
          RawProduct(<<>>, <<"p">>, <<"/", "p">>, <<"a">>, NoNumbers),
          RawProduct(<<"n">>, <<>>, <<"/", "p">>, <<"a">>, NoNumbers),
          RawProduct(<<"n">>, <<"p">>, <<>>, <<"a">>, NoNumbers),
          RawProduct(<<"n">>, <<"p">>, <<"http://">>, <<"a">>, NoNumbers)}

\* the records of the longer batches
BatchProducts ==
    {r \in RawProducts :
        /\ r.slug \in {<<>>, <<"p">>} /\ r.url # <<>>
        /\ r.rating \in {PyNone, PyNumber(Units(6))}}

Batches ==
    ListsUpTo(BatchProducts, MaxBatch) \cup {<<r>> : r \in RawProducts}

ProcessProductsBatch ==
    \E products_data \in Batches :
        \E r \in process_products_batch(CurrentDb, products_data, 1, <<>>, 0, now) :
            /\ SetDb(r.db)
            /\ last' = [op |-> "process_products_batch", arg |-> products_data,
                        processed |-> r.processed, errors |-> r.errors]
            /\ UNCHANGED <<sessions, now, files, crawl>>

\* the normalized records given to the validator directly: with and
\* without the required fields, a negative price, a rating above 5
NormalizedProducts ==
    {product \in [name : {<<>>, <<"n">>}, slug : {<<>>, <<"p">>},
                  url : {<<>>, <<"/", "p">>, <<"http://">>, <<"http://", "x">>},
                  price : {NoValue, {Units(100)}, {Units(0 - 100)}},
                  rating : {NoValue, {4500}, {Units(10)}}] :
        \/ product.name # <<>> /\ product.slug # <<>>
        \/ product.price = NoValue /\ product.rating = NoValue}

ValidateNormalizedProduct ==
    \E product \in NormalizedProducts :
        /\ last' = [op |-> "validate_normalized_product", arg |-> product,
                    result |-> validate_normalized_product(product)]
        /\ UNCHANGED <<categories, brands, products, sessions, now, files, crawl>>

NextPipeline == ProcessProductsBatch \/ ValidateNormalizedProduct

SpecPipeline == Init /\ [][NextPipeline]_vars

\* the normaliser's functions on their own: the state after construction
\* holds the value a caller is about to pass, the step applies the function
SlugChars == {"a", "A'", "-", " ", "/", "!"}

SlugInputs ==
    {PyNone} \cup {PyStr(slug) : slug \in ListsUpTo(SlugChars, MaxSlugLen)}

\* "if not slug": None and '' are both the empty text
TextOf(value) == IF value.type = "str" THEN value.text ELSE <<>>

\* digits in groups of three behind a comma or a period, with or without
\* a currency suffix
GroupedPrices ==
    {head \o <<separator>> \o group \o suffix :
        head \in {<<"2">>, <<"2", "9", "9">>, <<"4", "5", "0">>},
        separator \in {",", "."},
        group \in {<<"0", "0", "0">>, <<"5", "0", "0">>},
        suffix \in {<<>>, <<"d">>, <<" ", "V", "N", "D">>}}
    \cup {<<"1", separator, "0", "0", "0", separator, "0", "0", "0">> \o suffix :
            separator \in {",", "."}, suffix \in {<<>>, <<"d">>}}

PriceInputs ==
    {PyNone}
    \cup {PyNumber(n) : n \in {Units(0 - 100), 0 - 1, 0, 500, Units(299000)}}
    \cup {PyStr(text) : text \in GroupedPrices}
    \cup {PyStr(text) : text \in {<<>>, <<"x">>, <<"d">>, <<".">>, <<",">>,
                                   <<"-", "5">>, <<"1", "2", ".", "5">>,
                                   <<"1", ".", "2", ".", "3">>}}

Input(function, value) == [op |-> "input", function |-> function, arg |-> value]

InitNormalize ==
    /\ categories = <<>>
    /\ brands = <<>>
    /\ products = <<>>
    /\ sessions = {}
    /\ now = 0
    /\ last \in {Input("normalize_slug", slug) : slug \in SlugInputs}
              \cup {Input("normalize_price", price) : price \in PriceInputs}
    /\ files = <<>>
    /\ crawl = Idle

\* normalize_slug(slug), and normalize_slug of what it returned
NormalizeSlug ==
    /\ last.op = "input" /\ last.function = "normalize_slug"
    /\ last' = [op |-> "normalize_slug", arg |-> last.arg,
                result |-> normalize_slug(TextOf(last.arg)),
                again |-> normalize_slug(normalize_slug(TextOf(last.arg)))]
    /\ UNCHANGED <<categories, brands, products, sessions, now, files, crawl>>

\* normalize_price(price): every exception is caught, the call returns
NormalizePrice ==
    /\ last.op = "input" /\ last.function = "normalize_price"
    /\ last' = [op |-> "normalize_price", arg |-> last.arg,
                result |-> normalize_price(last.arg), raised |-> FALSE]
    /\ UNCHANGED <<categories, brands, products, sessions, now, files, crawl>>

NextNormalize == NormalizeSlug \/ NormalizePrice

SpecNormalize == InitNormalize /\ [][NextNormalize]_vars

\* the session table on its own: sessions are started, finished under
\* any id and cleaned up while a product is upserted and time passes
StartCrawlSession ==
    /\ Cardinality(sessions) < MaxSessions
    /\ LET started == start_crawl_session(sessions, now)
       IN  /\ sessions' = started.sessions
           /\ last' = [op |-> "start_crawl_session", raised |-> FALSE,
                       id |-> started.id]
    /\ UNCHANGED <<categories, brands, products, now, files, crawl>>

SessionStats == {[ZeroStats EXCEPT !.categories_found = 1, !.products_found = 2]}

FinishCrawlSession ==
    \E crawl_session_id \in 1..(MaxSessions + 1), status \in {"completed", "failed"},
       stats \in SessionStats, errors \in {"", IntegrityError} :
        /\ sessions' = finish_crawl_session(sessions, crawl_session_id, status,
                                            stats, errors, now)
        /\ last' = [op |-> "finish_crawl_session", raised |-> FALSE,
                    arg |-> [crawl_session_id |-> crawl_session_id,
                             status |-> status, errors |-> errors]]
        /\ UNCHANGED <<categories, brands, products, now, files, crawl>>

CleanupOldSessions ==
    \E days_old \in 0..MaxTime :
        /\ sessions' = cleanup_old_sessions(sessions, days_old, now)
        /\ last' = [op |-> "cleanup_old_sessions", raised |-> FALSE,
                    arg |-> days_old,
                    deleted_count |-> Cardinality(sessions)
                        - Cardinality(cleanup_old_sessions(sessions, days_old, now))]
        /\ UNCHANGED <<categories, brands, products, now, files, crawl>>

SessionProductPayloads ==
    {product_data \in UpdateProductPayloads :
        /\ product_data.description = <<>> /\ product_data.price = NoValue
        /\ product_data.brand_name = <<>>}

NextSessions ==
    \/ StartCrawlSession
    \/ FinishCrawlSession
    \/ CleanupOldSessions
    \/ UpsertProduct(SessionProductPayloads)
    \/ Tick

SpecSessions == Init /\ [][NextSessions]_vars

\* The thread pool of _crawl_categories, thread by thread.  crawl holds
\* the pool: the statistics map of the crawler that all threads share,
\* the tasks, and the coordinating thread that takes completed tasks in
\* any order.  The work of a task is what upsert_product does for each
\* record of its batch: it saves the record or it raises.  A statement
\* stats[key] += n is a load and a store that another thread may come
\* between.
TaskWork == ListsUpTo({"created", "updated", "raised"}, MaxItems)

Task(work) ==
    [work |-> work, pc |-> "queued", k |-> 1, loaded |-> 0, processed |-> <<>>,
     category_stats |-> [products_found |-> 0, products_processed |-> 0,
                         products_created |-> 0, products_updated |-> 0,
                         errors |-> 0]]

Waiting == [pc |-> "waiting", task |-> 0, loaded |-> 0]

\* executor.submit for every category
SubmitTasks ==
    /\ crawl.phase = "idle"
    /\ \E works \in ListsUpTo(TaskWork, MaxTasks), max_workers \in 1..MaxTasks :
         /\ works # <<>>
         /\ crawl' = [phase |-> "pool", stats |-> crawl.stats,
                      max_workers |-> max_workers,
                      tasks |-> [w \in DOMAIN works |-> Task(works[w])],
                      collected |-> {}, coordinator |-> Waiting]
    /\ UNCHANGED <<categories, brands, products, sessions, now, last, files>>

\* a free worker thread takes a queued task: _crawl_single_category
\* sets up category_stats and lists the products
WorkerStart ==
    /\ crawl.phase = "pool"
    /\ \E w \in DOMAIN crawl.tasks :
         /\ crawl.tasks[w].pc = "queued"
         /\ Cardinality({v \in DOMAIN crawl.tasks :
                           crawl.tasks[v].pc \in {"loop", "store"}}) < crawl.max_workers
         /\ crawl' = [crawl EXCEPT !.tasks[w].pc = "loop",
                                   !.tasks[w].category_stats.products_found =
                                       Len(crawl.tasks[w].work)]
         /\ UNCHANGED <<categories, brands, products, sessions, now, last, files>>

\* one turn of the loop of _process_products_batch: the record is saved
\* and appended, or upsert_product raises and the handler loads
\* self.stats['errors']
WorkerItem ==
    /\ crawl.phase = "pool"
    /\ \E w \in DOMAIN crawl.tasks :
         /\ crawl.tasks[w].pc = "loop"
         /\ crawl.tasks[w].k <= Len(crawl.tasks[w].work)
         /\ LET task == crawl.tasks[w]
            IN  crawl' = IF task.work[task.k] = "raised"
                         THEN [crawl EXCEPT !.tasks[w].pc = "store",
                                            !.tasks[w].loaded = crawl.stats.errors]
                         ELSE [crawl EXCEPT !.tasks[w].k = @ + 1,
                                            !.tasks[w].processed =
                                                Append(@, task.work[task.k] = "created")]
         /\ UNCHANGED <<categories, brands, products, sessions, now, last, files>>

\* the store of self.stats['errors'] += 1 in the handler of the batch
WorkerStore ==
    /\ crawl.phase = "pool"
    /\ \E w \in DOMAIN crawl.tasks :
         /\ crawl.tasks[w].pc = "store"
         /\ crawl' = [crawl EXCEPT !.stats.errors = crawl.tasks[w].loaded + 1,
                                   !.tasks[w].pc = "loop",
                                   !.tasks[w].k = @ + 1]
         /\ UNCHANGED <<categories, brands, products, sessions, now, last, files>>

\* the batch is over: _crawl_single_category fills category_stats and
\* returns it
WorkerReturn ==
    /\ crawl.phase = "pool"
    /\ \E w \in DOMAIN crawl.tasks :
         /\ crawl.tasks[w].pc = "loop"
         /\ crawl.tasks[w].k > Len(crawl.tasks[w].work)
         /\ LET processed == crawl.tasks[w].processed
            IN  crawl' = [crawl EXCEPT
                            !.tasks[w].pc = "done",
                            !.tasks[w].category_stats.products_processed = Len(processed),
                            !.tasks[w].category_stats.products_created =
                                CountOf(processed, TRUE),
                            !.tasks[w].category_stats.products_updated =
                                CountOf(processed, FALSE)]
         /\ UNCHANGED <<categories, brands, products, sessions, now, last, files>>

\* as_completed yields a finished task: the coordinating thread adds its
\* category_stats to the counters only it writes, and loads
\* self.stats['errors']
CoordinatorTake ==
    /\ crawl.phase = "pool" /\ crawl.coordinator.pc = "waiting"
    /\ \E w \in DOMAIN crawl.tasks :
         /\ crawl.tasks[w].pc = "done" /\ w \notin crawl.collected
         /\ LET category_stats == crawl.tasks[w].category_stats
            IN  crawl' = [crawl EXCEPT
                   !.stats.categories_processed = @ + 1,
                   !.stats.products_found = @ + category_stats.products_found,
                   !.stats.products_processed = @ + category_stats.products_processed,
                   !.stats.products_created = @ + category_stats.products_created,
                   !.stats.products_updated = @ + category_stats.products_updated,
                   !.coordinator = [pc |-> "adding", task |-> w,
                                    loaded |-> crawl.stats.errors]]
    /\ UNCHANGED <<categories, brands, products, sessions, now, last, files>>

\* the store of self.stats['errors'] += category_stats.get('errors', 0)
CoordinatorStore ==
    /\ crawl.phase = "pool" /\ crawl.coordinator.pc = "adding"
    /\ LET w == crawl.coordinator.task
       IN  crawl' = [crawl EXCEPT
                       !.stats.errors = crawl.coordinator.loaded
                                        + crawl.tasks[w].category_stats.errors,
                       !.collected = @ \cup {w},
                       !.coordinator = Waiting]
    /\ UNCHANGED <<categories, brands, products, sessions, now, last, files>>

\* every future has been taken: the with block of the executor ends
PoolJoined ==
    /\ crawl.phase = "pool"
    /\ crawl.collected = DOMAIN crawl.tasks
    /\ crawl' = [crawl EXCEPT !.phase = "joined"]
    /\ last' = [op |-> "crawl_categories", stats |-> crawl.stats]
    /\ UNCHANGED <<categories, brands, products, sessions, now, files>>

NextWorkers ==
    \/ SubmitTasks
    \/ WorkerStart
    \/ WorkerItem
    \/ WorkerStore
    \/ WorkerReturn
    \/ CoordinatorTake
    \/ CoordinatorStore
    \/ PoolJoined

SpecWorkers == Init /\ [][NextWorkers]_vars

\* Two worker threads inside upsert_product, each with its own session.
\* crawl holds the two calls.  A call first runs its query, which loads
\* the matching row if there is one; what follows up to the commit is one
\* step.  The commit of a loaded row writes the attributes whose new value
\* differs from the loaded one; the commit of a new row is an INSERT,
\* which the UNIQUE constraints can refuse.
ConcurrentPayloads ==
    [name : {<<"n">>, <<"m">>}, slug : {<<"p">>}, url : {<<"/", "p">>},
     description : {<<>>, <<"x">>}, price : {NoValue},
     category_name : {<<"a">>}, brand_name : {<<>>}]

UpsertCall(product_data) ==
    [product_data |-> product_data, pc |-> "start", existing |-> NullId,
     loaded |-> <<>>, created |-> FALSE]

\* a product is upserted while no other call is running
SetUpProduct ==
    /\ crawl.phase = "idle"
    /\ UpsertProduct(ConcurrentPayloads)

BeginUpserts ==
    /\ crawl.phase = "idle"
    /\ \E first, second \in ConcurrentPayloads :
         crawl' = [phase |-> "upserts", stats |-> crawl.stats,
                   calls |-> <<UpsertCall(first), UpsertCall(second)>>,
                   committed |-> <<>>]
    /\ UNCHANGED <<categories, brands, products, sessions, now, last, files>>

\* session.query(Product).filter(or_(slug, url)).first()
UpsertQuery ==
    /\ crawl.phase = "upserts"
    /\ \E w \in DOMAIN crawl.calls :
         /\ crawl.calls[w].pc = "start"
         /\ LET matching == MatchingProducts(products, crawl.calls[w].product_data)
            IN  IF matching = {}
                THEN crawl' = [crawl EXCEPT !.calls[w].pc = "queried"]
                ELSE \E i \in matching :
                        crawl' = [crawl EXCEPT !.calls[w].pc = "queried",
                                               !.calls[w].existing = i,
                                               !.calls[w].loaded = <<products[i]>>]
    /\ UNCHANGED <<categories, brands, products, sessions, now, last, files>>

\* the row after the UPDATE of a loaded row: the attributes set to a
\* value other than the loaded one are written
CommitLoaded(row, loaded, product_data, t) ==
    [row EXCEPT
       !.name = IF product_data.name # loaded.name THEN product_data.name ELSE @,
       !.url = IF product_data.url # loaded.url THEN product_data.url ELSE @,
       !.description = IF product_data.description # loaded.description
                       THEN product_data.description ELSE @,
       !.updated_at = IF \E f \in {"name", "url", "description"} :
                            product_data[f] # loaded[f]
                       THEN t ELSE @]

\* the rest of upsert_product up to its return or its raise
UpsertCommit ==
    /\ crawl.phase = "upserts"
    /\ \E w \in DOMAIN crawl.calls :
         LET call == crawl.calls[w]
             o == IF call.existing # NullId
                  THEN Outcome([CurrentDb EXCEPT !.products[call.existing] =
                                    CommitLoaded(@, call.loaded[1], call.product_data, now)],
                               FALSE, FALSE, call.existing)
                  ELSE CreateProduct(CurrentDb, call.product_data, now)
         IN  /\ call.pc = "queried"
             /\ SetDb(o.db)
             /\ crawl' = [crawl EXCEPT
                            !.calls[w].pc = IF o.raised THEN "raised" ELSE "returned",
                            !.calls[w].created = o.created,
                            !.committed = IF o.raised THEN @ ELSE Append(@, w)]
    /\ UNCHANGED <<sessions, now, last, files>>

\* both calls are over
EndUpserts ==
    /\ crawl.phase = "upserts"
    /\ \A w \in DOMAIN crawl.calls : crawl.calls[w].pc \in {"returned", "raised"}
    /\ last' = [op |-> "concurrent_upserts", committed |-> crawl.committed]
    /\ crawl' = Idle
    /\ UNCHANGED <<categories, brands, products, sessions, now, files>>

NextConcurrent ==
    \/ SetUpProduct
    \/ BeginUpserts
    \/ UpsertQuery
    \/ UpsertCommit
    \/ EndUpserts

SpecConcurrent == Init /\ [][NextConcurrent]_vars

\* the list parser on its own
NextParse == ParseCategoryPage

SpecParse == Init /\ [][NextParse]_vars

----------------------------------------------------------------------------
(* Claims about the persistence layer *)

\* some row of table has the slug or the url of the payload
MatchesSome(table, pd) ==
    \E i \in 1..Len(table) : table[i].slug = pd.slug \/ table[i].url = pd.url

MatchesTwo(table, pd) ==
    \E i, j \in 1..Len(table) :
        i # j /\ table[i].slug = pd.slug /\ table[j].url = pd.url

\* C3: upserting the same product payload twice in a row returns
\* was_created=True on the first call (the payload matches no row) and
\* was_created=False on the second; the second call returns the same row id
\* and adds no product row.
C3_UpsertTwice ==
    [][\A pd \in ProductPayloads :
         /\ (/\ last'.op = "upsert_product" /\ last'.arg = pd
             /\ ~MatchesSome(products, pd))
            => (~last'.raised /\ last'.created)
         /\ (/\ last.op = "upsert_product" /\ last.arg = pd
             /\ ~last.raised /\ last.created
             /\ last'.op = "upsert_product" /\ last'.arg = pd)
            => (/\ ~last'.raised /\ ~last'.created
                /\ last'.id = last.id
                /\ Len(products') = Len(products))]_vars

C4_Unique ==
    \A i, j \in 1..Len(products) :
        i # j => (products[i].slug # products[j].slug /\ products[i].url # products[j].url)

NoDuplicates(table) == ~ViolatesUnique(table, "name") /\ ~ViolatesUnique(table, "slug")

\* C7: get-or-create by name is idempotent: a call with a non-empty name
\* returns an entity carrying that name and adds at most one row; a call
\* repeated with the same name returns the same id and adds no row; no
\* call duplicates a name or a slug, and none fails (returns None) because
\* the entity exists.
C7_GetOrCreateIdempotent ==
    [][/\ \A n \in CategoryNames :
            (last'.op = "get_or_create_category" /\ last'.arg = n)
            => /\ last'.id \in 1..Len(categories')
               /\ categories'[last'.id].name = n
               /\ Len(categories') \in {Len(categories), Len(categories) + 1}
               /\ NoDuplicates(categories')
               /\ (last.op = "get_or_create_category" /\ last.arg = n)
                  => (last'.id = last.id /\ Len(categories') = Len(categories))
       /\ \A n \in BrandNames :
            (last'.op = "get_or_create_brand" /\ last'.arg = n)
            => /\ last'.id \in 1..Len(brands')
               /\ brands'[last'.id].name = n
               /\ Len(brands') \in {Len(brands), Len(brands) + 1}
               /\ NoDuplicates(brands')
               /\ (last.op = "get_or_create_brand" /\ last.arg = n)
                  => (last'.id = last.id /\ Len(brands') = Len(brands))]_vars

\* the helper returned an entity that existed under another slug than the
\* one it would synthesize, with a second category stored
C7_Witness ==
    /\ last.op = "get_or_create_category" /\ last.id # NullId
    /\ Len(categories) = 2
    /\ categories[last.id].name = last.arg
    /\ categories[last.id].slug # normalize_slug(last.arg)

\* C8: after upsert_category with a parent_slug that names an existing
\* (other) category, the stored category's parent_id is that parent's id,
\* whether the call created or updated the category.
C8_ParentLinked ==
    [][\A cd \in CategoryPayloads :
         (/\ last'.op = "upsert_category" /\ last'.arg = cd /\ ~last'.raised
          /\ cd.parent_slug # <<>> /\ cd.parent_slug # cd.slug
          /\ FindBy(categories, "slug", cd.parent_slug) # NullId)
         => categories'[last'.id].parent_id
              = FindBy(categories, "slug", cd.parent_slug)]_vars

\* C10: bulk_upsert_products never raises, its tallies account for every
\* record of the list (created + updated + errors = total = length), and
\* every created record is persisted (the table grows by the created count).
C10_BulkTallies ==
    [][last'.op = "bulk_upsert_products"
       => /\ ~last'.raised
          /\ last'.stats.total = Len(last'.arg)
          /\ last'.stats.created + last'.stats.updated + last'.stats.errors
               = last'.stats.total
          /\ Len(products') = Len(products) + last'.stats.created]_vars

\* a batch of two records whose first failed and whose second was created
C10_Witness ==
    /\ last.op = "bulk_upsert_products"
    /\ Len(last.arg) = 2
    /\ last.stats.errors = 1 /\ last.stats.created = 1
    /\ last.arg[1].category_name = <<>>

\* the update of an existing row: a non-empty payload value has replaced
\* the stored one, an empty one has left it, updated_at has not decreased
\* and the slug is the same
Updated(old, new, payload, fields) ==
    /\ \A f \in fields :
         new[f] = IF payload[f] = (IF f = "price" THEN NoValue ELSE <<>>)
                  THEN old[f] ELSE payload[f]
    /\ new.updated_at >= old.updated_at
    /\ new.slug = old.slug

\* C15: an upsert that finds an existing category, brand or product
\* replaces the stored value of every field whose payload value is not
\* empty, leaves the others, does not decrease updated_at, and changes
\* neither the id nor the slug of the row.
C15_UpdateFrame ==
    [][(/\ last'.op \in {"upsert_category", "upsert_brand", "upsert_product"}
        /\ ~last'.raised /\ ~last'.created)
       => /\ last'.op = "upsert_category"
             => /\ last'.id = FindBy(categories, "slug", last'.arg.slug)
                /\ Len(categories') = Len(categories)
                /\ Updated(categories[last'.id], categories'[last'.id], last'.arg,
                           {"name", "url", "description"})
          /\ last'.op = "upsert_brand"
             => /\ last'.id = FindBy(brands, "slug", last'.arg.slug)
                /\ Len(brands') = Len(brands)
                /\ Updated(brands[last'.id], brands'[last'.id], last'.arg,
                           {"name", "url", "description"})
          /\ last'.op = "upsert_product"
             => /\ last'.id = FindBy(products, "slug", last'.arg.slug)
                /\ Len(products') = Len(products)
                /\ Updated(products[last'.id], products'[last'.id], last'.arg,
                           {"name", "url", "description", "price"})]_vars

----------------------------------------------------------------------------
(* Claims about the exporter *)

\* C5: export_category_sql followed by validate_exported_sql on the file
\* it wrote reports is_valid = True and a records_count equal to the
\* number of products exported.
C5_RoundTrip ==
    [][(/\ last.op = "export_category_sql" /\ ~last.raised
        /\ last.products_exported > 0
        /\ last'.op = "validate_exported_sql"
        /\ last'.arg = last.file_path)
       => (/\ last'.result.is_valid
           /\ last'.result.records_count = last.products_exported)]_vars

IsInsert(piece) == piece.kind = "insert"

IsCategoryInsert(piece) == piece.kind = "insert" /\ piece.table = "categories"

TableRank(table) ==
    CASE table = "categories" -> 1 [] table = "brands" -> 2 [] OTHER -> 3

\* C9: in every exported file the category INSERTs go from the root
\* ancestor down to the exported category, each one the parent of the
\* next, and every category INSERT comes before the brand INSERTs, which
\* come before the product INSERTs.
C9_InsertOrder ==
    \A path \in DOMAIN files :
        LET inserts == SelectSeq(files[path], IsInsert)
            cats == SelectSeq(files[path], IsCategoryInsert)
        IN  /\ \A i, j \in 1..Len(inserts) :
                 i < j => TableRank(inserts[i].table) <= TableRank(inserts[j].table)
            /\ Len(cats) >= 1
            /\ cats[1].ref = NullId
            /\ \A i \in 2..Len(cats) : cats[i].ref = cats[i - 1].id
            /\ cats[Len(cats)].id = FindBy(categories, "slug", path)

\* a file with the INSERTs of a parent and its child category, of a brand
\* and of two products
C9_Witness ==
    \E path \in DOMAIN files :
        LET inserts == SelectSeq(files[path], IsInsert)
        IN  /\ Len(SelectSeq(files[path], IsCategoryInsert)) = 2
            /\ \E i \in 1..Len(inserts) : inserts[i].table = "brands"
            /\ Cardinality({i \in 1..Len(inserts) : inserts[i].table = "products"}) = 2

----------------------------------------------------------------------------
(* Claims about the orchestrator *)

Terminal(row) == row.status \in {"completed", "failed"} /\ row.finished_at # NoValue

\* C1: a run that has started a crawl session ends once its body has
\* returned or raised, and when it ends its session has status completed
\* or failed and finished_at set, whatever the site returned or failed to
\* return; between runs every session is in that terminal state.
C1_SessionTerminal ==
    /\ [][(crawl.phase # "idle" /\ crawl'.phase = "idle")
          => \E row \in sessions' : row.id = crawl.session_id /\ Terminal(row)]_vars
    /\ [](crawl.phase = "idle" => \A row \in sessions : Terminal(row))
    /\ (crawl.phase \in {"completed", "failed"} ~> crawl.phase = "idle")

\* a full crawl during which no page could be fetched has returned, its
\* session completed
C1_Witness ==
    /\ last.op = "full_crawl" /\ ~last.raised
    /\ last.stats[1].categories_found = 0 /\ last.stats[1].products_found = 0
    /\ \E row \in sessions :
         row.id = last.session_id /\ row.status = "completed" /\ row.finished_at # NoValue

\* C2: when an exception escapes the body of a run, the session of the run
\* is finalized as failed with the text of the exception in errors, and
\* the run raises that exception instead of returning statistics.
C2_FailedAndReraised ==
    [][/\ (crawl.phase = "running" /\ crawl'.phase = "failed") => crawl'.error # ""
       /\ (crawl.phase = "failed" /\ crawl' # crawl)
          => /\ crawl'.phase = "idle"
             /\ last'.raised /\ last'.error = crawl.error /\ last'.op = crawl.kind
             /\ \E row \in sessions' :
                  /\ row.id = crawl.session_id
                  /\ row.status = "failed" /\ row.errors = crawl.error
                  /\ row.finished_at # NoValue]_vars

\* an incremental crawl has raised the error of an upsert, and its session
\* is failed with that text
C2_Witness ==
    /\ last.op = "incremental_crawl" /\ last.raised /\ last.error = IntegrityError
    /\ \E row \in sessions :
         row.id = last.session_id /\ row.status = "failed" /\ row.errors = IntegrityError

AllFetched(site) == \A u \in DOMAIN site.detail : site.detail[u] # None

\* the slugs of the products listed on the first page of a category
FirstPageSlugs(site) ==
    {normalize_slug(extract_slug_from_url(site.pages[c.url][1].items[i]))
     : <<c, i>> \in {<<c, i>> \in Range(site.categories) \X (1..MaxBulk) :
                       /\ site.pages[c.url] # <<>>
                       /\ i <= Len(site.pages[c.url][1].items)}}

\* C6: an incremental crawl in which every fetch succeeds returns
\* products_updated = N, products_created = M and products_processed =
\* N + M, where N is the number of stored products updated at or after the
\* cutoff and M the number of slugs listed on the first pages of the
\* categories that no stored product has.
C6_IncrementalCounts ==
    [][(/\ crawl.phase = "running" /\ crawl.kind = "incremental_crawl"
        /\ crawl'.phase # "running"
        /\ AllFetched(crawl.site))
       => LET N == Len(get_products_modified_since(CurrentDb,
                                                   crawl.start_time - crawl.arg.since_days))
              M == Cardinality({slug \in FirstPageSlugs(crawl.site) :
                                  FindBy(products, "slug", slug) = NullId})
          IN  /\ crawl'.phase = "completed"
              /\ crawl'.stats.products_updated = N
              /\ crawl'.stats.products_created = M
              /\ crawl'.stats.products_processed = N + M]_vars

\* C11: crawl_category with a slug that no stored category has raises:
\* its body requests no page, changes no table and writes no export file,
\* and the run ends raising with its session failed.
C11_UnknownCategory ==
    [][/\ (/\ crawl.phase = "running" /\ crawl.kind = "crawl_category"
           /\ FindBy(categories, "slug", crawl.arg.category_slug) = NullId
           /\ crawl' # crawl)
          => /\ crawl'.phase = "failed" /\ crawl'.error # ""
             /\ ~crawl'.fetched
             /\ products' = products /\ categories' = categories
             /\ brands' = brands /\ files' = files
       /\ (/\ crawl.phase = "failed" /\ crawl.kind = "crawl_category"
           /\ crawl' # crawl)
          => /\ last'.op = "crawl_category" /\ last'.raised
             /\ last'.stats = None
             /\ products' = products /\ files' = files
             /\ \E row \in sessions' :
                  row.id = crawl.session_id /\ row.status = "failed"]_vars

\* crawl_category of a slug that is not stored has raised, with other
\* categories and products stored
C11_Witness ==
    /\ last.op = "crawl_category" /\ last.raised
    /\ last.arg.category_slug = <<"z">>
    /\ categories # <<>> /\ products # <<>>
    /\ \E row \in sessions : row.id = last.session_id /\ row.status = "failed"

\* the urls of the products that the listings of the site show
ListedUrls(site) ==
    UNION {{item.url : item \in Range(parse_category_page(site, c.url, 0).products)}
           : c \in Range(site.categories)}

\* C12: whatever pages fail, the body of full_crawl completes: every
\* category found is crawled, and every listed product whose detail page
\* was fetched with its category is stored although other pages failed;
\* the run then returns its statistics with the session completed.
C12_FullCrawlNeverRaises ==
    [][/\ (/\ crawl.phase = "running" /\ crawl.kind = "full_crawl"
           /\ crawl' # crawl)
          => /\ crawl'.phase = "completed" /\ crawl'.error = ""
             /\ crawl'.stats.categories_found = Len(crawl.site.categories)
             /\ crawl'.stats.categories_processed
                  = crawl.stats.categories_processed + Len(crawl.site.categories)
             /\ \A u \in ListedUrls(crawl.site) :
                  (/\ ~crawl.arg.skip_detail_parsing
                   /\ crawl.site.detail[u] # None
                   /\ crawl.site.detail[u][1].category_name # <<>>)
                  => FindBy(products', "url", u) # NullId
       /\ (/\ crawl.phase = "completed" /\ crawl.kind = "full_crawl"
           /\ crawl' # crawl)
          => /\ last'.op = "full_crawl" /\ ~last'.raised
             /\ last'.stats = <<crawl.stats>>
             /\ \E row \in sessions' :
                  row.id = crawl.session_id /\ row.status = "completed"]_vars

\* the only run so far is a full crawl that found three listed products,
\* could not fetch the detail page of some and stored another
C12_Witness ==
    /\ last.op = "full_crawl" /\ ~last.raised
    /\ Cardinality(sessions) = 1
    /\ last.stats[1].products_found = 3
    /\ last.stats[1].products_processed = 1
    /\ last.stats[1].errors = 0
    /\ Len(products) = 1

\* C13: in the three entry points a product that cannot be persisted is
\* counted in errors and skipped while the others are processed, and the
\* body of the run completes (the one fatal case is crawl_category of a
\* category that is not stored): every product found is then either
\* processed or counted as an error.
C13_ItemFailuresSkipped ==
    [][(/\ crawl.phase = "running" /\ crawl' # crawl
        /\ ~(/\ crawl.kind = "crawl_category"
             /\ FindBy(categories, "slug", crawl.arg.category_slug) = NullId))
       => /\ crawl'.phase = "completed"
          /\ crawl.kind = "crawl_category"
             => crawl'.stats.products_found
                  = crawl'.stats.products_processed
                    + (crawl'.stats.errors - crawl.stats.errors)
          /\ (crawl.kind = "full_crawl" /\ crawl.arg.skip_detail_parsing)
             => crawl'.stats.products_found - crawl.stats.products_found
                  = (crawl'.stats.products_processed - crawl.stats.products_processed)
                    + (crawl'.stats.errors - crawl.stats.errors)]_vars

----------------------------------------------------------------------------
(* Claims about the parsers and the normaliser *)

\* a stop condition holds at page k: it has no item (or does not exist),
\* the cap is reached, or it shows no next-page marker
StopsAt(pages, max_pages, k) ==
    \/ k > Len(pages)
    \/ pages[k].items = <<>>
    \/ max_pages >= 1 /\ k >= max_pages
    \/ ~pages[k].next

FirstStop(pages, max_pages) ==
    CHOOSE k \in 1..(Len(pages) + 1) :
        /\ StopsAt(pages, max_pages, k)
        /\ \A j \in 1..(k - 1) : ~StopsAt(pages, max_pages, j)

\* the items of pages 1..k, in page order
RECURSIVE ItemsUpTo(_, _)
ItemsUpTo(pages, k) ==
    IF k = 0 THEN <<>>
    ELSE ItemsUpTo(pages, k - 1)
         \o (IF k > Len(pages) THEN <<>>
             ELSE [i \in 1..Len(pages[k].items) |-> ListItem(pages[k].items[i])])

RawRating(raw) ==
    IF raw.type = "number" THEN {raw.number}
    ELSE IF raw.type = "str" THEN ParseFloat(raw.text)
    ELSE NoValue

RawPercentage(raw) ==
    IF raw.type = "number" THEN {raw.number}
    ELSE IF raw.type = "str" THEN ParseFloat(Remove(raw.text, "%"))
    ELSE NoValue

\* the values a field of row i may hold after a batch: the one it held
\* before (absent for a new row) or a raw value of the batch that lies
\* within low..high as it is
Storable(old_table, i, field, raw_values, high) ==
    {IF i \in DOMAIN old_table THEN old_table[i][field] ELSE NoValue}
    \cup {{v} : v \in {w \in UNION raw_values : 0 <= w /\ w <= high}}

\* C16: every stored product has a rating that is absent or within 0..5,
\* a discount percentage that is absent or within 0..100, a review count
\* of at least 0 and a price that is absent or at least 0; and the rating
\* and the percentage a batch stores are raw values that were in range,
\* so an out-of-range raw value is stored as absent and never clamped.
C16_NumericRanges ==
    /\ [](\A i \in DOMAIN products :
            /\ \A v \in products[i].rating : 0 <= v /\ v <= Units(5)
            /\ \A v \in products[i].discount_percentage : 0 <= v /\ v <= Units(100)
            /\ products[i].review_count >= 0
            /\ \A v \in products[i].price : v >= 0)
    /\ [][last'.op = "process_products_batch"
          => \A i \in DOMAIN products' :
               /\ products'[i].rating \in
                    Storable(products, i, "rating",
                             {RawRating(r.rating) : r \in Range(last'.arg)},
                             Units(5))
               /\ products'[i].discount_percentage \in
                    Storable(products, i, "discount_percentage",
                             {RawPercentage(r.discount_percentage) : r \in Range(last'.arg)},
                             Units(100))]_vars

\* a record with a rating of 6 and a discount of 150 was saved as a new
\* row, which holds neither
C16_Witness ==
    /\ last.op = "process_products_batch"
    /\ Len(last.arg) = 1 /\ last.processed = <<TRUE>>
    /\ last.arg[1].rating = PyNumber(Units(6))
    /\ last.arg[1].discount_percentage = PyNumber(Units(150))
    /\ \E i \in DOMAIN products :
         /\ products[i].slug = normalize_slug(last.arg[1].slug)
         /\ products[i].rating = NoValue
         /\ products[i].discount_percentage = NoValue
         /\ products[i].review_count = 0

\* C17: normalize_slug applied to its own result returns that result.
C17_SlugIdempotent ==
    last.op = "normalize_slug" => last.again = last.result

\* a text whose punctuation sits between two hyphens inside the slug
C17_Witness ==
    /\ last.op = "normalize_slug"
    /\ last.arg = PyStr(<<"A'", "-", "!", "-", "a">>)
    /\ last.result = <<"a", "-", "a">>
    /\ last.again = last.result

\* a character of the text survives normalisation
Survives(slug) ==
    \E i \in 1..Len(slug) : VietnameseChar(LowerChar(slug[i])) \in WordChars

\* C18: normalize_slug returns "unknown" for None, for the empty text and
\* for a text none of whose characters survives.
C18_UnknownSlug ==
    (last.op = "normalize_slug" /\ ~Survives(TextOf(last.arg)))
        => last.result = Unknown

\* the digits of a text, read as one number
DigitsOf(text) == Units(DigitsValue(SelectSeq(text, LAMBDA c : c \in DigitChars)))

\* C19: a price text whose digits are grouped by commas or periods, with
\* or without a currency suffix, gives the number its digits form; a
\* negative number gives absent; a text without a digit gives absent;
\* the call never raises.
C19_PriceParsed ==
    last.op = "normalize_price"
        => /\ ~last.raised
           /\ (last.arg.type = "str" /\ last.arg.text \in GroupedPrices)
                => last.result = {DigitsOf(last.arg.text)}
           /\ (last.arg.type = "number" /\ last.arg.number < 0)
                => last.result = NoValue
           /\ (last.arg.type = "str"
               /\ \A i \in 1..Len(last.arg.text) : last.arg.text[i] \notin DigitChars)
                => last.result = NoValue

\* the record has a name, a slug and a well-formed url
NoHardError(product) ==
    /\ product.name # <<>> /\ product.slug # <<>> /\ product.url # <<>>
    /\ product.url[1] = "/" \/ (product.url[1] = "http://" /\ Len(product.url) > 1)

\* the records of a batch that pass validation once normalized
ValidRecords(products_data) ==
    {k \in DOMAIN products_data : NoHardError(normalize_product(products_data[k]))}

\* C20: the validator reports a record valid exactly when it has a name,
\* a slug and a well-formed url, and reports a negative price or a rating
\* outside 0..5 as a warning only; a batch saves exactly the records that
\* are valid once normalized: each of them is in the database afterwards,
\* and a batch without a valid record writes nothing.
C20_PersistedIffValid ==
    [][/\ last'.op = "validate_normalized_product"
          => /\ last'.result.is_valid = NoHardError(last'.arg)
             /\ (\E v \in last'.arg.price : v < 0) => last'.result.warnings # {}
             /\ (\E v \in last'.arg.rating : v < 0 \/ v > Units(5))
                  => last'.result.warnings # {}
       /\ last'.op = "process_products_batch"
          => LET valid == ValidRecords(last'.arg)
             IN  /\ Len(last'.processed) = Cardinality(valid)
                 /\ \A k \in valid :
                      \E i \in DOMAIN products' :
                          products'[i].slug = normalize_product(last'.arg[k]).slug
                 /\ valid = {} => products' = products]_vars

----------------------------------------------------------------------------
(* Claims about the session table *)

\* C21: finish_crawl_session under an id that matches no session raises
\* nothing, creates no row and changes no row of any table.
C21_FinishUnknownSession ==
    [][(/\ last'.op = "finish_crawl_session"
        /\ \A row \in sessions : row.id # last'.arg.crawl_session_id)
       => /\ ~last'.raised
          /\ sessions' = sessions
          /\ categories' = categories /\ brands' = brands
          /\ products' = products]_vars

\* an id that matches no row was finished while another session is running
\* and a product is stored
C21_Witness ==
    /\ last.op = "finish_crawl_session"
    /\ sessions # {} /\ products # <<>>
    /\ \A row \in sessions :
         row.id # last.arg.crawl_session_id /\ row.status = "running"

\* C22: cleanup_old_sessions(d) deletes exactly the sessions started
\* before now minus d days, keeps every other session and leaves the
\* categories, the brands and the products as they are.
C22_CleanupFrame ==
    [][(last'.op = "cleanup_old_sessions" /\ now' = now)
       => /\ sessions' = {row \in sessions : row.started_at >= now - last'.arg}
          /\ last'.deleted_count = Cardinality(sessions \ sessions')
          /\ categories' = categories /\ brands' = brands
          /\ products' = products]_vars

\* a cleanup deleted one session and kept one that started at the cutoff
C22_Witness ==
    /\ last.op = "cleanup_old_sessions"
    /\ last.deleted_count = 1
    /\ \E row \in sessions : row.started_at = now - last.arg
    /\ products # <<>>

----------------------------------------------------------------------------
(* Claims about the thread pool *)

\* the sum of a counter over the category_stats of the tasks
RECURSIVE SumOfTasks(_, _, _)
SumOfTasks(tasks, w, key) ==
    IF w > Len(tasks) THEN 0
    ELSE tasks[w].category_stats[key] + SumOfTasks(tasks, w + 1, key)

\* a step of a worker thread: a task moves, the coordinator does not
WorkerStep ==
    /\ crawl.phase = "pool" /\ crawl'.phase = "pool"
    /\ crawl'.tasks # crawl.tasks
    /\ crawl'.coordinator = crawl.coordinator

\* C23: no step of a worker task changes the statistics map of the
\* crawler, and when the pool is done its products_found,
\* products_processed, products_created, products_updated and errors are
\* the sums of the category_stats of the tasks.
C23_CoordinatorOwnsStats ==
    /\ [][WorkerStep => crawl'.stats = crawl.stats]_vars
    /\ [](crawl.phase = "joined"
          => \A key \in {"products_found", "products_processed",
                         "products_created", "products_updated", "errors"} :
               crawl.stats[key] = SumOfTasks(crawl.tasks, 1, key))

\* C24: when two calls of upsert_product for the same slug have run
\* concurrently, both returned without raising, one row has that slug,
\* and its name, url and description are those of the call that
\* committed last.
C24_LastWriterWins ==
    [][(crawl.phase = "upserts" /\ crawl'.phase = "idle")
       => /\ \A w \in DOMAIN crawl.calls : crawl.calls[w].pc = "returned"
          /\ Cardinality({i \in DOMAIN products' : products'[i].slug = <<"p">>}) = 1
          /\ Len(crawl.committed) = 2
          /\ \A i \in DOMAIN products' :
               products'[i].slug = <<"p">>
               => LET winner == crawl.calls[crawl.committed[2]].product_data
                  IN  /\ products'[i].name = winner.name
                      /\ products'[i].url = winner.url
                      /\ products'[i].description = winner.description]_vars

----------------------------------------------------------------------------
(* full_crawl step by step: the coordinating thread starts the session,   *)
(* discovers and saves the categories, submits one task per category to   *)
(* the pool, takes the results as they complete, exports and finalizes    *)
(* the session.  crawl holds the position of the coordinating thread and  *)
(* of every task.                                                         *)

\* variant: the coordinator leaves the pool after the first result
Joined_First(tasks, collected) == collected # {}

\* the loop over as_completed has yielded every future, so that the with
\* block of the executor ends
Joined(tasks, collected) == collected = DOMAIN tasks

\* start_crawl_session at the head of full_crawl
FullCrawlStart ==
    /\ crawl.phase = "idle"
    /\ Cardinality(sessions) < MaxSessions
    /\ \E site \in Sites, skip_detail_parsing \in BOOLEAN, max_workers \in 1..MaxTasks,
          max_categories \in 0..1 :
         LET started == start_crawl_session(sessions, now)
         IN  /\ sessions' = started.sessions
             /\ crawl' = [phase |-> "started", stats |-> crawl.stats, site |-> site,
                          skip_detail_parsing |-> skip_detail_parsing,
                          max_workers |-> max_workers,
                          max_categories |-> max_categories,
                          session_id |-> started.id,
                          categories_data |-> <<>>, k |-> 1, tasks |-> <<>>,
                          collected |-> {}]
    /\ UNCHANGED <<categories, brands, products, now, last, files>>

\* discover_categories returns the categories of the site
FullCrawlDiscover ==
    /\ crawl.phase = "started"
    /\ crawl' = [crawl EXCEPT !.phase = "saving",
                              !.categories_data = crawl.site.categories]
    /\ UNCHANGED <<categories, brands, products, sessions, now, last, files>>

\* one turn of the loop of _discover_and_save_categories
FullCrawlSaveCategory ==
    /\ crawl.phase = "saving"
    /\ crawl.k <= Len(crawl.categories_data)
    /\ LET o == upsert_category(CurrentDb,
                                normalize_category(crawl.categories_data[crawl.k]), now)
       IN  /\ SetDb(o.db)
           /\ crawl' = [crawl EXCEPT !.k = @ + 1,
                                     !.stats.errors = IF o.raised THEN @ + 1 ELSE @]
    /\ UNCHANGED <<sessions, now, last, files>>

\* _discover_and_save_categories returns; categories_found is set, the
\* list is cut to max_categories (0 stands for None) and every category
\* is submitted to the executor
FullCrawlSubmit ==
    /\ crawl.phase = "saving"
    /\ crawl.k > Len(crawl.categories_data)
    /\ LET cats == IF crawl.max_categories = 0 THEN crawl.categories_data
                   ELSE SubSeq(crawl.categories_data, 1,
                               IF Len(crawl.categories_data) < crawl.max_categories
                               THEN Len(crawl.categories_data)
                               ELSE crawl.max_categories)
       IN  crawl' = [crawl EXCEPT
                       !.phase = "pool",
                       !.stats.categories_found = Len(crawl.categories_data),
                       !.tasks = [w \in DOMAIN cats |->
                                    [category |-> cats[w], pc |-> "queued",
                                     category_stats |-> ZeroStats]]]
    /\ UNCHANGED <<categories, brands, products, sessions, now, last, files>>

\* a free worker thread takes a queued task
FullCrawlTaskStart ==
    /\ crawl.phase = "pool"
    /\ \E w \in DOMAIN crawl.tasks :
         /\ crawl.tasks[w].pc = "queued"
         /\ Cardinality({v \in DOMAIN crawl.tasks : crawl.tasks[v].pc = "running"})
              < crawl.max_workers
         /\ crawl' = [crawl EXCEPT !.tasks[w].pc = "running"]
    /\ UNCHANGED <<categories, brands, products, sessions, now, last, files>>

\* the task runs _crawl_single_category and returns its category_stats
FullCrawlTaskRun ==
    /\ crawl.phase = "pool"
    /\ \E w \in DOMAIN crawl.tasks :
         /\ crawl.tasks[w].pc = "running"
         /\ \E r \in crawl_single_category(CurrentDb, crawl.site, crawl.tasks[w].category,
                                           crawl.skip_detail_parsing, now) :
              /\ SetDb(r.db)
              /\ crawl' = [crawl EXCEPT
                             !.tasks[w].pc = "done",
                             !.tasks[w].category_stats =
                                 [ZeroStats EXCEPT
                                    !.products_found = r.category_stats.products_found,
                                    !.products_processed = r.category_stats.products_processed,
                                    !.products_created = r.category_stats.products_created,
                                    !.products_updated = r.category_stats.products_updated,
                                    !.errors = r.category_stats.errors],
                             !.stats.errors = @ + r.errors]
    /\ UNCHANGED <<sessions, now, last, files>>

\* as_completed yields a finished task and its category_stats is added
FullCrawlCollect ==
    /\ crawl.phase = "pool"
    /\ ~Joined(crawl.tasks, crawl.collected)
    /\ \E w \in DOMAIN crawl.tasks :
         /\ crawl.tasks[w].pc = "done" /\ w \notin crawl.collected
         /\ LET category_stats == crawl.tasks[w].category_stats
            IN  crawl' = [crawl EXCEPT
                   !.stats.categories_processed = @ + 1,
                   !.stats.products_found = @ + category_stats.products_found,
                   !.stats.products_processed = @ + category_stats.products_processed,
                   !.stats.products_created = @ + category_stats.products_created,
                   !.stats.products_updated = @ + category_stats.products_updated,
                   !.stats.errors = @ + category_stats.errors,
                   !.collected = @ \cup {w}]
    /\ UNCHANGED <<categories, brands, products, sessions, now, last, files>>

\* _crawl_categories returns and export_all_categories writes the files
FullCrawlExport ==
    /\ crawl.phase = "pool"
    /\ Joined(crawl.tasks, crawl.collected)
    /\ \E f \in export_all_categories(CurrentDb, files) : files' = f
    /\ crawl' = [crawl EXCEPT !.phase = "exported", !.site = NoSite]
    /\ UNCHANGED <<categories, brands, products, sessions, now, last>>

\* finish_crawl_session(..., 'completed', self.stats) and return
FullCrawlFinish ==
    /\ crawl.phase = "exported"
    /\ sessions' = finish_crawl_session(sessions, crawl.session_id, "completed",
                                        crawl.stats, "", now)
    /\ last' = [op |-> "full_crawl", raised |-> FALSE, stats |-> <<crawl.stats>>,
                session_id |-> crawl.session_id]
    /\ crawl' = [phase |-> "idle", stats |-> crawl.stats]
    /\ UNCHANGED <<categories, brands, products, now, files>>

NextFullCrawl ==
    \/ FullCrawlStart
    \/ FullCrawlDiscover
    \/ FullCrawlSaveCategory
    \/ FullCrawlSubmit
    \/ FullCrawlTaskStart
    \/ FullCrawlTaskRun
    \/ FullCrawlCollect
    \/ FullCrawlExport
    \/ FullCrawlFinish

SpecFullCrawl == Init /\ [][NextFullCrawl]_vars

----------------------------------------------------------------------------
(* The category tree under upsert_category and upsert_product, and the    *)
(* two walks of the exporter over it.                                     *)

TreePayloads ==
    {[name |-> slug, slug |-> slug, url |-> <<"/", "c">>, description |-> <<>>,
      parent_slug |-> parent_slug]
     : slug \in {<<"a">>, <<"b">>, <<"c">>},
       parent_slug \in {<<>>, <<"a">>, <<"b">>, <<"c">>}}

TreeProductPayloads ==
    [name : {<<"n">>}, slug : {<<"p">>}, url : {<<"/", "p">>},
     description : {<<>>}, price : {NoValue},
     category_name : {<<"a">>, <<"d">>}, brand_name : {<<>>}]

\* the loop "while current" of _generate_category_insert_sql, left after
\* fuel turns with NullId in the place of the rows not reached
RECURSIVE AncestorWalk(_, _, _)
AncestorWalk(table, current, fuel) ==
    IF current = NullId THEN <<>>
    ELSE IF fuel = 0 THEN <<NullId>>
    ELSE Append(AncestorWalk(table, table[current].parent_id, fuel - 1), current)

\* _export_category_with_subcategories: the categories in the order in
\* which the recursion over category.children counts them, cut at depth
\* fuel with NullId in the place of the call not made
RECURSIVE Visit(_, _, _)
RECURSIVE VisitEach(_, _, _, _)
Visit(table, category, fuel) ==
    IF fuel = 0 THEN <<NullId>>
    ELSE LET ChildOf(c) == c.parent_id = category
         IN  <<category>> \o VisitEach(table, IdsWhere(table, ChildOf, Len(table)),
                                       1, fuel - 1)

VisitEach(table, cats, k, fuel) ==
    IF k > Len(cats) THEN <<>>
    ELSE Visit(table, cats[k], fuel) \o VisitEach(table, cats, k + 1, fuel)

\* the loop over the root categories of export_all_categories
RootWalk(table) ==
    LET IsRoot(c) == c.parent_id = NullId
    IN  VisitEach(table, IdsWhere(table, IsRoot, Len(table)), 1, Len(table) + 1)

NextTree ==
    \/ UpsertCategory(TreePayloads)
    \/ UpsertProduct(TreeProductPayloads)

SpecTree == Init /\ [][NextTree]_vars

----------------------------------------------------------------------------
(* Claims about the life of a run *)

\* a session as start_crawl_session leaves it
Untouched(row) ==
    /\ row.status = "running" /\ row.finished_at = NoValue
    /\ row.categories_found = 0 /\ row.products_found = 0
    /\ row.products_created = 0 /\ row.products_updated = 0
    /\ row.errors = Null

\* C25: a run adds one session when it starts, leaves the sessions as
\* they are until it ends, and then finalizes its own session and no
\* other; a finalized session never changes again; so a session has no
\* finished_at exactly when its status is running, and the session of
\* the run in progress is as it was created.
C25_SessionLifecycle ==
    /\ [][/\ (crawl.phase = "idle" /\ crawl'.phase # "idle")
             => /\ Cardinality(sessions') = Cardinality(sessions) + 1
                /\ sessions \subseteq sessions'
                /\ \A row \in sessions' \ sessions :
                     row.id = crawl'.session_id /\ Untouched(row)
          /\ (crawl.phase # "idle" /\ crawl'.phase # "idle") => sessions' = sessions
          /\ (crawl.phase # "idle" /\ crawl'.phase = "idle")
             => /\ {row \in sessions : row.id # crawl.session_id} \subseteq sessions'
                /\ Cardinality(sessions') = Cardinality(sessions)
                /\ \A row \in sessions' :
                     row.id = crawl.session_id => row.status # "running"
          /\ \A row \in sessions : row.status # "running" => row \in sessions']_vars
    /\ [](/\ \A row \in sessions :
               row.finished_at = NoValue <=> row.status = "running"
          /\ crawl.phase # "idle"
             => \A row \in sessions : row.id = crawl.session_id => Untouched(row)
          /\ crawl.phase = "idle" => \A row \in sessions : row.status # "running")

\* the body of a second run has found products while its session is as
\* it was created and the session of the first run is finalized
C25_Witness ==
    /\ crawl.phase = "completed" /\ crawl.stats.products_found > 0
    /\ \E row \in sessions : row.id = crawl.session_id /\ Untouched(row)
    /\ \E row \in sessions :
         row.id # crawl.session_id /\ row.status = "failed" /\ row.finished_at # NoValue

\* the tasks of the run that have left the queue
Begun == {w \in DOMAIN crawl.tasks : crawl.tasks[w].pc # "queued"}

\* C26: in full_crawl a task starts only when every discovered category
\* has been saved and the session has been started, the export writes
\* only when every submitted task has completed and been taken, and the
\* session becomes completed only after the export has returned.
C26_FullCrawlOrder ==
    /\ [][/\ (crawl.phase # "idle" /\ crawl'.phase # "idle" /\ Begun' # Begun)
             => /\ crawl.k > Len(crawl.categories_data)
                /\ crawl.categories_data = crawl.site.categories
                /\ files' = files
                /\ \E row \in sessions :
                     row.id = crawl.session_id /\ row.status = "running"
          /\ (crawl.phase = "saving" /\ crawl'.phase = "saving")
             => Begun = {} /\ crawl.tasks = <<>>
          /\ (crawl.phase # "idle" /\ crawl'.phase = "exported")
             => \A w \in DOMAIN crawl.tasks :
                  crawl.tasks[w].pc = "done" /\ w \in crawl.collected
          /\ files' # files
             => /\ crawl.phase = "pool"
                /\ \A w \in DOMAIN crawl.tasks : crawl.tasks[w].pc = "done"
          /\ (\E row \in sessions' : row.status = "completed" /\ row \notin sessions)
             => crawl.phase = "exported"]_vars
    /\ [](crawl.phase = "exported"
            => /\ \A w \in DOMAIN crawl.tasks : crawl.tasks[w].pc = "done"
               /\ \E row \in sessions :
                    row.id = crawl.session_id /\ row.status = "running")

\* the export of a run with two categories has written a file after
\* both tasks completed and products were created
C26_Witness ==
    /\ crawl.phase = "exported"
    /\ Len(crawl.tasks) = 2
    /\ crawl.stats.products_created > 0
    /\ files # <<>>
    /\ Len(categories) >= 2

----------------------------------------------------------------------------
(* Claims about the category of a product *)

\* C27: upsert_product of a payload that names no category and matches no
\* stored product inserts one product row whose category reference is
\* null, and returns was_created=True.
C27_NullCategoryStored ==
    [][\A pd \in ProductPayloads :
         (/\ last'.op = "upsert_product" /\ last'.arg = pd /\ last' # last
          /\ pd.category_name = <<>>
          /\ ~MatchesSome(products, pd))
         => /\ ~last'.raised /\ last'.created
            /\ Len(products') = Len(products) + 1
            /\ products'[Len(products')].category_id = NullId
            /\ products'[Len(products')].slug = pd.slug]_vars

----------------------------------------------------------------------------
(* Claims about the counters of a run *)

\* the results of the body of the run in progress, had it begun with the
\* counters run_stats
RunResults(run_stats) ==
    IF crawl.kind = "full_crawl"
    THEN full_crawl(CurrentDb, files, run_stats, crawl.site,
                    crawl.arg.skip_detail_parsing, now)
    ELSE IF crawl.kind = "incremental_crawl"
    THEN incremental_crawl(CurrentDb, files, run_stats, crawl.site,
                           crawl.start_time - crawl.arg.since_days, now)
    ELSE crawl_category(CurrentDb, files, run_stats, crawl.site,
                        crawl.arg.category_slug, now)

SameCounters(a, b) ==
    /\ a.categories_found = b.categories_found
    /\ a.products_found = b.products_found
    /\ a.products_created = b.products_created
    /\ a.products_updated = b.products_updated
    /\ a.errors = b.errors

\* C28: the counters a run ends with are those of its own work, the
\* counters of a body that began at zero, whatever the crawler did
\* before; they are the counters copied into the session of the run and
\* returned by it.
C28_CountersOfTheRun ==
    [][/\ (crawl.phase = "running" /\ crawl'.phase \in {"completed", "failed"})
          => \E r \in RunResults(ZeroStats) :
               /\ r.db = [categories |-> categories', brands |-> brands',
                          products |-> products']
               /\ r.files = files'
               /\ SameCounters(r.stats, crawl'.stats)
       /\ (crawl.phase \in {"completed", "failed"} /\ crawl'.phase = "idle")
          => /\ \E row \in sessions' :
                  /\ row.id = crawl.session_id
                  /\ row.categories_found = crawl.stats.categories_found
                  /\ row.products_found = crawl.stats.products_found
                  /\ row.products_created = crawl.stats.products_created
                  /\ row.products_updated = crawl.stats.products_updated
             /\ ~last'.raised => last'.stats = <<crawl.stats>>]_vars

----------------------------------------------------------------------------
(* Claims about failed calls *)

\* C29: when upsert_product raises, the category, brand and product
\* tables are what they were before the call.
C29_FailedUpsertChangesNothing ==
    [][(last'.op = "upsert_product" /\ last'.raised)
       => /\ categories' = categories
          /\ brands' = brands
          /\ products' = products]_vars

----------------------------------------------------------------------------
(* Claims about the category tree *)

Occurrences(seq, v) == Cardinality({i \in 1..Len(seq) : seq[i] = v})

\* C30: no category is its own parent or its own ancestor: the walk up
\* from any category ends within as many turns as there are categories
\* and meets no category twice, and the walk down from the roots returns
\* and counts every category exactly once.
C30_ParentAcyclic ==
    LET n == Len(categories)
    IN  /\ \A c \in 1..n :
             LET chain == AncestorWalk(categories, c, n)
             IN  /\ categories[c].parent_id # c
                 /\ categories[c].parent_id \in 1..n \cup {NullId}
                 /\ Occurrences(chain, NullId) = 0
                 /\ \A a \in 1..n : Occurrences(chain, a) <= 1
                 /\ categories_to_insert(CurrentDb, c, <<>>) = chain
        /\ Len(RootWalk(categories)) = n
        /\ \A c \in 1..n : Occurrences(RootWalk(categories), c) = 1

\* a chain of three categories, and one more that upsert_product made;
\* the call just made updated the root of the chain with a payload that
\* names one of its descendants as its parent
C30_Witness ==
    /\ \E a, b, c \in 1..Len(categories) :
         /\ categories[a].parent_id = NullId
         /\ categories[b].parent_id = a
         /\ categories[c].parent_id = b
         /\ last.op = "upsert_category" /\ ~last.raised /\ ~last.created
         /\ last.id = a
         /\ last.arg.parent_slug = categories[c].slug
    /\ \E d \in 1..Len(categories) : categories[d].slug = <<"d">>

====
